---- MODULE Spec2Model ----
(***************************************************************************)
(* OpcServer (src/opc_project/opcua_server.py): the connection lifecycle   *)
(* create / start / stop of the OPC UA server manager, its point           *)
(* definitions and resolved nodes.  Every public method is one action; the *)
(* collaborator (the opcua Server object) is a state record whose calls    *)
(* succeed or fail as the environment chooses.                             *)
(***************************************************************************)
EXTENDS Integers, Sequences, FiniteSets, TLC

\* ------------------------------------------------------------------ bounds
\* largest `retries` argument passed to start()
MaxRetries == 3
\* largest `backoff_s` argument passed to start()
MaxBackoff == 2
\* largest number of data rows of a generated CSV file
MaxRows == 2

\* ------------------------------------------------------- Python's None
None == <<>>
Some(x) == <<x>>
Val(o) == o[1]

\* bool(x) of an optional boolean: None and False are falsy
Truthy(o) == o # None /\ Val(o)

\* str.startswith on strings held as tuples of characters
startswith(s, prefix) ==
    /\ Len(s) >= Len(prefix)
    /\ SubSeq(s, 1, Len(prefix)) = prefix

OPC_TCP == <<"o", "p", "c", ".", "t", "c", "p", ":", "/", "/">>

\* Constructor arguments (endpoint_url, namespace) an instance may be built with
EndpointUrls == { OPC_TCP \o <<"h", ":", "1">>,
                  <<"h", "t", "t", "p", ":", "/", "/", "h">>,
                  <<"o", "p", "c", ".", "t", "c", "p", ":", "/">> }
Namespaces == { "urn:test", "" }

\* Default arguments of start()
DefaultRetries == 3
DefaultBackoff == 1

VARIABLES
    endpoint_url,      \* self._endpoint_url
    namespace,         \* self._namespace
    server,            \* self._server: None or Some(handle)
    idx,               \* self._idx: None or Some(namespace index)
    started,           \* self._started: None or Some(BOOLEAN)
    nodes,             \* self._nodes: None or Some(point definitions)
    resolved_nodes,    \* self._resolved_nodes: None or Some(list of node handles)
    lib,               \* the collaborator: Server objects made, endpoint serving
    last               \* the last completed call: arguments, outcome, primitive calls

\* OpcClient (src/opc_project/opcua_client.py)
VARIABLES
    cli_client,        \* self.client: None or Some(session handle)
    cli_aliases,       \* self._aliases: alias -> node id string
    cli_nodes,         \* self._nodes: alias -> resolved node handle
    cli_lib,           \* the collaborator: Client objects made
    cli_last           \* the last completed call of the client

\* validate_types (src/opc_project/opcua_lib.py) called on its own
VARIABLES
    vt_in,             \* the dict passed to validate_types
    vt_out             \* what the call made of it: pending, returned or raised

pvars == <<vt_in, vt_out>>

svars == <<endpoint_url, namespace, server, idx, started, nodes, resolved_nodes, lib, last>>

cvars == <<cli_client, cli_aliases, cli_nodes, cli_lib, cli_last>>

vars == <<endpoint_url, namespace, server, idx, started, nodes, resolved_nodes, lib, last,
          cli_client, cli_aliases, cli_nodes, cli_lib, cli_last, vt_in, vt_out>>

\* ------------------------------------------------------ properties
\* is_created reading the started flag instead of the handle
is_created_by_started(s) == s.started # None /\ Val(s.started)
is_created(s) == s.server # None
\* is_started with the flag's sense inverted
is_started_inverted(s) == s.started # None /\ ~Val(s.started)
is_started(s) == s.started # None /\ Val(s.started)
alias_is_loaded(s) == s.nodes # None
\* idx_is_registered reading the started flag instead of the index
idx_is_registered_by_started(s) == s.started # None /\ Val(s.started)
idx_is_registered(s) == s.idx # None
nodes_resolved(s) == s.resolved_nodes # None /\ Val(s.resolved_nodes) # <<>>

\* ------------------------------------------------------ exceptions
\* `raise Kind(..., original=exc) from exc`, or `raise Kind(...)` when orig is
\* "none": the attribute `original` and the __cause__ of the exception
Raise(s, kind, orig) == [s EXCEPT !.exc = kind, !.original = orig, !.cause = orig]

\* `raise Kind(...) from exc`: __cause__ is set, the attribute `original`
\* keeps its default None
RaiseFrom(s, kind, exc) == [s EXCEPT !.exc = kind, !.original = "none", !.cause = exc]
Raised(s) == s.exc # "none"

\* _check_general_invariants: TRUE when no assertion fails
check_general_invariants(s) ==
    /\ (s.server = None => s.idx = None)
    /\ (s.server # None => s.idx # None)
    /\ (Truthy(s.started) => s.server # None /\ s.idx # None)
    /\ startswith(endpoint_url, OPC_TCP)
    /\ namespace # ""

\* the statement `self._check_general_invariants()`
assert_general_invariants(s) ==
    IF check_general_invariants(s) THEN s ELSE Raise(s, "AssertionError", "none")

\* Server.register_namespace: index of the namespace in the server's array;
\* namespaces 0 and 1 are the standard ones, one uri is ever registered.
register_namespace(s) == [s EXCEPT !.n_register = @ + 1]

register_index(s, env) ==
    IF s.server = None THEN Raise(s, "OpcServerError", "none")
    ELSE LET s1 == register_namespace(s)
         IN IF env.fail = "register_namespace"
            THEN Raise(s1, "OpcServerError", "LibError")
            ELSE assert_general_invariants([s1 EXCEPT !.idx = Some(2)])

\* The address space of a new Server, as far as the manager sees it: the
\* Objects node, no "root" folder under it, no folders and no variables.
EmptySpace == [objects |-> TRUE, root |-> FALSE, folders |-> {}, vars |-> {}]

\* The identity of a new Server object: it differs from the object made before
\* it, the only one the manager can still hold a reference to.
other_handle(made) == IF made = "A" THEN "B" ELSE "A"

\* Server(): a new handle with a fresh address space, not serving
new_Server(s) ==
    [s EXCEPT !.n_server = @ + 1,
              !.made = other_handle(s.made),
              !.running = FALSE,
              !.aspace = EmptySpace,
              !.server = Some(other_handle(s.made))]

\* the except block of create forgetting to clear the handle
create_reset_keeps_server(s, cause) ==
    RaiseFrom([s EXCEPT !.idx = None], "OpcServerError", cause)

\* the except block of create
create_reset(s, cause) ==
    RaiseFrom([s EXCEPT !.server = None, !.idx = None], "OpcServerError", cause)

create(s, env) ==
    IF is_created(s)
    THEN IF ~idx_is_registered(s) THEN register_index(s, env) ELSE s
    ELSE IF env.fail = "Server"
         THEN create_reset([s EXCEPT !.n_server = @ + 1], "LibError")
         ELSE LET s1 == new_Server(s)
              IN IF env.fail = "set_endpoint"
                 THEN create_reset(s1, "LibError")
                 ELSE LET s2 == register_index(s1, env)
                      IN IF Raised(s2) THEN create_reset(s2, s2.exc) ELSE s2

\* Server.stop() whose failure is not caught by the caller
server_stop_uncaught(s, ok) ==
    IF ok THEN [s EXCEPT !.n_stop = @ + 1, !.running = FALSE]
    ELSE Raise([s EXCEPT !.n_stop = @ + 1], "LibError", "none")

\* Server.stop() of the collaborator
server_stop(s, ok) ==
    IF ok THEN [s EXCEPT !.n_stop = @ + 1, !.running = FALSE]
    ELSE [s EXCEPT !.n_stop = @ + 1]

\* the clean branch of stop forgetting the namespace index
stop_clean_keeps_idx(s) ==
    [s EXCEPT !.server = None, !.nodes = None, !.aspace = EmptySpace]

\* the clean branch of stop; the Server object is no longer referenced, and
\* with it its address space is gone
stop_clean(s) ==
    [s EXCEPT !.server = None, !.idx = None, !.nodes = None, !.aspace = EmptySpace]

\* the finally block of stop cleaning whatever `clean` says
stop_finally_always_clean(s, clean) ==
    [s EXCEPT !.started = Some(FALSE), !.server = None, !.idx = None,
              !.nodes = None, !.aspace = EmptySpace]

\* the finally block of stop
stop_finally(s, clean) ==
    LET s1 == [s EXCEPT !.started = Some(FALSE)]
    IN IF clean THEN stop_clean(s1) ELSE s1

\* stop without the guard on a manager that was never created
stop_without_guard(s, clean, ok) ==
    LET s1 == stop_finally(server_stop(s, ok), clean)
        s2 == assert_general_invariants(s1)
    IN IF Raised(s2) THEN s2 ELSE [s2 EXCEPT !.ret = "True"]

stop(s, clean, ok) ==
    IF s.server = None THEN [s EXCEPT !.ret = "False"]
    ELSE LET s1 == stop_finally(server_stop(s, ok), clean)
             s2 == assert_general_invariants(s1)
         IN IF Raised(s2) THEN s2 ELSE [s2 EXCEPT !.ret = "True"]

\* time.sleep
sleep(s, t) == [s EXCEPT !.sleeps = Append(@, t)]

\* a constant wait instead of one scaled by the attempt number
backoff_delay_constant(backoff_s, attempt) == backoff_s

\* the wait after a failed attempt that is not the last
backoff_delay(backoff_s, attempt) == backoff_s * attempt

\* Server.start() of the collaborator
server_start(s, ok) ==
    IF ok THEN [s EXCEPT !.n_start = @ + 1, !.running = TRUE]
    ELSE Raise([s EXCEPT !.n_start = @ + 1], "LibError", "none")

\* the try block of one attempt
start_attempt(s, attempt, env) ==
    LET s1 == assert_general_invariants(s)
    IN IF Raised(s1) THEN s1
       ELSE IF s1.server = None THEN Raise(s1, "AssertionError", "none")
       ELSE LET s2 == server_start(s1, env.start_ok[attempt])
            IN IF Raised(s2) THEN s2
               ELSE LET s3 == assert_general_invariants([s2 EXCEPT !.started = Some(TRUE)])
                    IN IF Raised(s3) THEN s3 ELSE [s3 EXCEPT !.ret = "True"]

\* the rollback stopping the server without the clean flag
start_rollback_keeps_handle(s, env) ==
    LET s1 == IF s.server # None
              THEN [stop(s, FALSE, env.rollback_stop_ok) EXCEPT
                        !.exc = "none", !.original = "none", !.cause = "none",
                        !.ret = "none"]
              ELSE s
    IN [s1 EXCEPT !.started = Some(FALSE)]

\* the except block of the last attempt: best-effort clean stop
start_rollback(s, env) ==
    LET s1 == IF s.server # None
              THEN [stop(s, TRUE, env.rollback_stop_ok) EXCEPT
                        !.exc = "none", !.original = "none", !.cause = "none",
                        !.ret = "none"]
              ELSE s
    IN [s1 EXCEPT !.started = Some(FALSE)]

RECURSIVE start_loop(_, _, _, _, _)
start_loop(s, attempt, retries, backoff_s, env) ==
    IF attempt > retries
    THEN LET s1 == assert_general_invariants(s)
         IN IF Raised(s1) THEN s1 ELSE Raise(s1, "OpcServerError", s1.last_exc)
    ELSE LET t == start_attempt(s, attempt, env)
         IN IF ~Raised(t) THEN t
            ELSE LET c == [t EXCEPT !.exc = "none", !.original = "none", !.cause = "none",
                              !.last_exc = t.exc]
                 IN IF attempt < retries
                    THEN start_loop(sleep(c, backoff_delay(backoff_s, attempt)), attempt + 1,
                                    retries, backoff_s, env)
                    ELSE start_loop(start_rollback(c, env), attempt + 1,
                                    retries, backoff_s, env)

\* the validation of start's arguments letting retries = 0 through
start_args_ok_from_zero(retries, backoff_s) == ~(retries < 0) /\ ~(backoff_s <= 0)

\* the validation of start's arguments
start_args_ok(retries, backoff_s) == ~(retries < 1) /\ ~(backoff_s <= 0)

start(s, retries, backoff_s, env) ==
    IF ~start_args_ok(retries, backoff_s) THEN Raise(s, "ValueError", "none")
    ELSE LET s1 == assert_general_invariants(s)
         IN IF Raised(s1) THEN s1
            ELSE LET s2 == IF ~is_created(s1) THEN create(s1, env)
                           ELSE IF ~idx_is_registered(s1) THEN register_index(s1, env)
                           ELSE s1
                 IN IF Raised(s2) THEN s2
                    ELSE IF is_started(s2) THEN [s2 EXCEPT !.ret = "True"]
                    ELSE start_loop(s2, 1, retries, backoff_s, env)

\* ------------------------------------------------------ strings
\* A Python str is a tuple of one-character strings.
WHITESPACE == {" ", "\t", "\n", "\r"}
DIGITS == <<"0", "1", "2", "3", "4", "5", "6", "7", "8", "9">>
UPPER == <<"A", "B", "C", "D", "E", "F", "G", "H", "I", "J", "K", "L", "M", "N", "O", "P", "Q", "R", "S", "T", "U", "V", "W", "X", "Y", "Z", "Í">>
LOWER == <<"a", "b", "c", "d", "e", "f", "g", "h", "i", "j", "k", "l", "m", "n", "o", "p", "q", "r", "s", "t", "u", "v", "w", "x", "y", "z", "í">>

IndexOf(c, seq) == CHOOSE i \in 1..Len(seq) : seq[i] = c
IsDigit(c) == \E i \in 1..Len(DIGITS) : DIGITS[i] = c
DigitVal(c) == IndexOf(c, DIGITS) - 1

RECURSIVE lstrip(_)
lstrip(s) == IF s # <<>> /\ Head(s) \in WHITESPACE THEN lstrip(Tail(s)) ELSE s

RECURSIVE rstrip(_)
rstrip(s) ==
    IF s # <<>> /\ s[Len(s)] \in WHITESPACE THEN rstrip(SubSeq(s, 1, Len(s) - 1)) ELSE s

\* str.strip()
strip(s) == rstrip(lstrip(s))

lower_char(c) ==
    IF \E i \in 1..Len(UPPER) : UPPER[i] = c THEN LOWER[IndexOf(c, UPPER)] ELSE c

\* str.lower()
lower(s) == [i \in 1..Len(s) |-> lower_char(s[i])]

\* a replace that leaves the string as it is
replace_nothing(s, old, new) == s

\* str.replace(old, new) for one-character old and new
replace(s, old, new) == [i \in 1..Len(s) |-> IF s[i] = old THEN new ELSE s[i]]

\* ------------------------------------------------------ Python values
\* One record shape for every value a point definition can hold.
PyBool(b) == [kind |-> "bool", b |-> b, i |-> 0, e |-> 0, s |-> <<>>]
PyInt(i) == [kind |-> "int", b |-> FALSE, i |-> i, e |-> 0, s |-> <<>>]
PyStr(s) == [kind |-> "str", b |-> FALSE, i |-> 0, e |-> 0, s |-> s]
\* a finite float m * 10^e, m not divisible by 10 (0.0 is m = 0, e = 0)
PyFloat(m, e) == [kind |-> "float", b |-> FALSE, i |-> m, e |-> e, s |-> <<>>]
\* inf, -inf, nan
PyFloatSpecial(name) == [kind |-> "float", b |-> FALSE, i |-> 0, e |-> 0, s |-> <<name>>]

RECURSIVE float_norm(_, _)
float_norm(m, e) ==
    IF m = 0 THEN PyFloat(0, 0)
    ELSE IF m % 10 = 0 THEN float_norm(m \div 10, e + 1)
    ELSE PyFloat(m, e)

\* digit ("_"? digit)*: the digit groups int() and float() accept
is_digitpart(s) ==
    /\ s # <<>>
    /\ IsDigit(s[1]) /\ IsDigit(s[Len(s)])
    /\ \A i \in 1..Len(s) : IsDigit(s[i]) \/ s[i] = "_"
    /\ \A i \in 1..(Len(s) - 1) : ~(s[i] = "_" /\ s[i + 1] = "_")

RECURSIVE digits_value(_, _)
digits_value(s, acc) ==
    IF s = <<>> THEN acc
    ELSE IF Head(s) = "_" THEN digits_value(Tail(s), acc)
    ELSE digits_value(Tail(s), acc * 10 + DigitVal(Head(s)))

digit_count(s) == Cardinality({i \in 1..Len(s) : IsDigit(s[i])})

has_sign(s) == s # <<>> /\ Head(s) \in {"+", "-"}
unsigned(s) == IF has_sign(s) THEN Tail(s) ELSE s
sign_of(s) == IF s # <<>> /\ Head(s) = "-" THEN -1 ELSE 1

\* int(raw): [ok, v]
parse_int(raw) ==
    LET t == strip(raw)
    IN IF is_digitpart(unsigned(t))
       THEN [ok |-> TRUE, v |-> PyInt(sign_of(t) * digits_value(unsigned(t), 0))]
       ELSE [ok |-> FALSE, v |-> PyInt(0)]

FirstIndex(s, chars) ==
    LET S == {i \in 1..Len(s) : s[i] \in chars}
    IN IF S = {} THEN 0 ELSE CHOOSE i \in S : \A j \in S : i <= j

\* float(norm): [ok, v]
parse_float(norm) ==
    LET t == strip(norm)
        body == unsigned(t)
        sgn == sign_of(t)
        ePos == FirstIndex(body, {"e", "E"})
        mant == IF ePos = 0 THEN body ELSE SubSeq(body, 1, ePos - 1)
        expo == IF ePos = 0 THEN <<>> ELSE SubSeq(body, ePos + 1, Len(body))
        dot == FirstIndex(mant, {"."})
        ip == IF dot = 0 THEN mant ELSE SubSeq(mant, 1, dot - 1)
        fp == IF dot = 0 THEN <<>> ELSE SubSeq(mant, dot + 1, Len(mant))
        mantOk == IF dot = 0 THEN is_digitpart(ip)
                  ELSE /\ (ip = <<>> \/ is_digitpart(ip))
                       /\ (fp = <<>> \/ is_digitpart(fp))
                       /\ ~(ip = <<>> /\ fp = <<>>)
        expOk == ePos = 0 \/ is_digitpart(unsigned(expo))
        expVal == IF ePos = 0 THEN 0 ELSE sign_of(expo) * digits_value(unsigned(expo), 0)
        bad == [ok |-> FALSE, v |-> PyFloat(0, 0)]
    IN IF lower(body) \in {<<"i", "n", "f">>, <<"i", "n", "f", "i", "n", "i", "t", "y">>}
       THEN [ok |-> TRUE, v |-> PyFloatSpecial(IF sgn < 0 THEN "-inf" ELSE "inf")]
       ELSE IF lower(body) = <<"n", "a", "n">>
       THEN [ok |-> TRUE, v |-> PyFloatSpecial("nan")]
       ELSE IF mantOk /\ expOk
       THEN [ok |-> TRUE,
             v |-> float_norm(sgn * digits_value(ip \o fp, 0), expVal - digit_count(fp))]
       ELSE bad

\* ------------------------------------------------------ validate_types
TYPE_MAP ==
    << [key |-> <<"b", "o", "o", "l", "e", "a", "n">>, vtype |-> "Boolean"],
       [key |-> <<"s", "b", "y", "t", "e">>, vtype |-> "SByte"],
       [key |-> <<"b", "y", "t", "e">>, vtype |-> "Byte"],
       [key |-> <<"i", "n", "t", "1", "6">>, vtype |-> "Int16"],
       [key |-> <<"u", "i", "n", "t", "1", "6">>, vtype |-> "UInt16"],
       [key |-> <<"i", "n", "t", "3", "2">>, vtype |-> "Int32"],
       [key |-> <<"u", "i", "n", "t", "3", "2">>, vtype |-> "UInt32"],
       [key |-> <<"i", "n", "t", "6", "4">>, vtype |-> "Int64"],
       [key |-> <<"u", "i", "n", "t", "6", "4">>, vtype |-> "UInt64"],
       [key |-> <<"f", "l", "o", "a", "t">>, vtype |-> "Float"],
       [key |-> <<"d", "o", "u", "b", "l", "e">>, vtype |-> "Double"],
       [key |-> <<"s", "t", "r", "i", "n", "g">>, vtype |-> "String"] >>

in_TYPE_MAP(key) == \E i \in 1..Len(TYPE_MAP) : TYPE_MAP[i].key = key
type_of(key) == TYPE_MAP[CHOOSE i \in 1..Len(TYPE_MAP) : TYPE_MAP[i].key = key].vtype

\* the true words without the accented one
TRUE_SET_ascii == { <<"1">>, <<"t", "r", "u", "e">>, <<"t">>, <<"y", "e", "s">>, <<"y">>, <<"s", "i">> }

TRUE_SET == { <<"1">>, <<"t", "r", "u", "e">>, <<"t">>, <<"y", "e", "s">>, <<"y">>, <<"s", "i">>, <<"s", "í">> }
FALSE_SET == { <<"0">>, <<"f", "a", "l", "s", "e">>, <<"f">>, <<"n", "o">>, <<"n">>, <<>> }

IntTypes == {"SByte", "Byte", "Int16", "UInt16", "Int32", "UInt32", "Int64", "UInt64"}

\* the cast of `initial`: [ok, v]
cast_initial(vtype, raw) ==
    IF vtype = "Boolean"
    THEN IF lower(raw) \in TRUE_SET THEN [ok |-> TRUE, v |-> PyBool(TRUE)]
         ELSE IF lower(raw) \in FALSE_SET THEN [ok |-> TRUE, v |-> PyBool(FALSE)]
         ELSE [ok |-> FALSE, v |-> PyBool(FALSE)]
    ELSE IF vtype = "String" THEN [ok |-> TRUE, v |-> PyStr(raw)]
    ELSE IF vtype \in IntTypes
    THEN IF raw = <<>> THEN [ok |-> TRUE, v |-> PyInt(0)] ELSE parse_int(raw)
    ELSE LET norm == replace(raw, ",", ".")
         IN IF norm = <<>> THEN [ok |-> TRUE, v |-> PyFloat(0, 0)] ELSE parse_float(norm)

\* the cast of `writable`: [ok, v]
cast_writable(text) ==
    LET writable == lower(strip(text))
    IN IF writable \in TRUE_SET THEN [ok |-> TRUE, v |-> TRUE]
       ELSE IF writable \in FALSE_SET THEN [ok |-> TRUE, v |-> FALSE]
       ELSE [ok |-> FALSE, v |-> FALSE]

\* a key the dict given to validate_types does not have
Absent == <<"<absent>">>

\* node_line.get("initial", "")
get_initial(node_line) == IF node_line.initial = Absent THEN <<>> ELSE node_line.initial

\* validate_types(node_line): [ok, exc, def]; ok = FALSE is the exception
\* raised, exc its kind
validate_types(node_line) ==
    LET dtype_key == lower(strip(node_line.datatype))
        vtype == type_of(dtype_key)
        raw == strip(get_initial(node_line))
        initial == cast_initial(vtype, raw)
        writable == cast_writable(node_line.writable)
        bad == [ok |-> FALSE, exc |-> "ValueError", def |-> node_line]
        missing == [ok |-> FALSE, exc |-> "KeyError", def |-> node_line]
    IN IF node_line.datatype = Absent THEN missing
       ELSE IF ~in_TYPE_MAP(dtype_key) THEN bad
       ELSE IF ~initial.ok THEN bad
       ELSE IF node_line.writable = Absent THEN missing
       ELSE IF ~writable.ok THEN bad
       ELSE [ok |-> TRUE, exc |-> "none",
             def |-> [alias |-> node_line.alias, nodeid |-> node_line.nodeid,
                      datatype |-> vtype, initial |-> initial.v,
                      folder |-> node_line.folder, writable |-> writable.v]]

\* ------------------------------------------------------ the dicts given to validate_types
\* the `datatype` values: the twelve keys, two of them in other case and padded, two unsupported ones, and the missing key
DatatypeTexts ==
    {
      <<"b", "o", "o", "l", "e", "a", "n">>, <<"s", "b", "y", "t", "e">>, <<"b", "y", "t", "e">>, <<"i", "n", "t", "1", "6">>,
      <<"u", "i", "n", "t", "1", "6">>, <<"i", "n", "t", "3", "2">>, <<"u", "i", "n", "t", "3", "2">>, <<"i", "n", "t", "6", "4">>,
      <<"u", "i", "n", "t", "6", "4">>, <<"f", "l", "o", "a", "t">>, <<"d", "o", "u", "b", "l", "e">>, <<"s", "t", "r", "i", "n", "g">>,
      <<" ", "I", "n", "t", "3", "2">>, <<"B", "O", "O", "L", "E", "A", "N", "\t">>, <<"i", "n", "t", "8">>, <<>>,
      Absent }

\* the `initial` values: the boolean words, some in other case or padded, other words, integer and float literals and near misses, and the missing key
InitialTexts ==
    {
      <<"1">>, <<"t", "r", "u", "e">>, <<"t">>, <<"y", "e", "s">>,
      <<"y">>, <<"s", "i">>, <<"s", "í">>, <<"0">>,
      <<"f", "a", "l", "s", "e">>, <<"f">>, <<"n", "o">>, <<"n">>,
      <<>>, <<"T", "R", "U", "E">>, <<" ", "Y", "e", "s", " ">>, <<"S", "Í">>,
      <<"2">>, <<"m", "a", "y", "b", "e">>, <<"t", "r", " ", "u", "e">>, <<"4", "2">>,
      <<"-", "7">>, <<"+", "5">>, <<"4", "_", "2">>, <<"0", "0", "7">>,
      <<"3", "0", "0">>, <<"2", "5", "6">>, <<"2", "5", "5">>, <<"-", "1", "2", "9">>,
      <<"-", "1", "2", "8">>, <<"-", "1">>, <<"6", "5", "5", "3", "6">>, <<"0", "x", "1", "F">>,
      <<"1", "e", "3">>, <<"4", " ", "2">>, <<"1", ".", "0">>, <<"1", "2", "a">>,
      <<"4", "_", "_", "2">>, <<"_", "4", "2">>, <<"2", "0", ",", "5">>, <<"2", "0", ".", "5">>,
      <<".", "5">>, <<"-", "0", ",", "2", "5">>, <<"1", "e", "-", "2">>, <<"1", ",", "0", "0", "0", ".", "5">>,
      <<"i", "n", "f">>, <<"n", "a", "n">>, <<"a", "b", "c">>, Absent }

\* the `writable` values, and the missing key
WritableTexts ==
    {
      <<"1">>, <<"t", "r", "u", "e">>, <<"s", "í">>, <<>>, <<"\t", "Y", "E", "S", " ">>, <<"0">>,
      <<"n">>, <<"F", "a", "l", "s", "e">>, <<"m", "a", "y", "b", "e">>, <<"2">>, Absent }

CastRows ==
    {[alias |-> <<"a">>, nodeid |-> <<"n">>, datatype |-> d, initial |-> i,
      folder |-> <<"f">>, writable |-> w] :
        d \in DatatypeTexts, i \in InitialTexts, w \in WritableTexts}

\* ------------------------------------------------------ load_nodes_from_csv
REQUIRED_FIELDS == <<"alias", "nodeid", "datatype", "initial", "folder", "writable">>

VariantTypes == {TYPE_MAP[i].vtype : i \in 1..Len(TYPE_MAP)}

\* counters that do not start from zero
StatsOneSkipped == [total_rows |-> 0, loaded |-> 0, skipped |-> 1, duplicates |-> 0,
                    errors |-> 0, resolved |-> 0]

NoStats == [total_rows |-> 0, loaded |-> 0, skipped |-> 0, duplicates |-> 0,
            errors |-> 0, resolved |-> 0]

\* the dict comprehension that strips every field of a row
norm_row(row) == [k \in DOMAIN row |-> strip(row[k])]

\* the check of the required fields finding none empty
any_required_empty_never(row) == FALSE

any_required_empty(row) ==
    \E i \in 1..Len(REQUIRED_FIELDS) : row[REQUIRED_FIELDS[i]] = <<>>

\* `alias in nodes` looking at no entry
has_alias_never(defs, alias) == FALSE

\* `alias in nodes` on the insertion-ordered dict of definitions; an entry is
\* the definition together with the key it is stored under
has_alias(defs, alias) == \E i \in 1..Len(defs) : defs[i].key = alias

\* the definition stored under its node id
store_by_nodeid(defs, alias, node_def) ==
    Append(defs, [key |-> node_def.nodeid, alias |-> node_def.alias,
                  nodeid |-> node_def.nodeid, datatype |-> node_def.datatype,
                  initial |-> node_def.initial, folder |-> node_def.folder,
                  writable |-> node_def.writable])

\* nodes[alias] = node_def, for an alias that is not a key yet
store(defs, alias, node_def) ==
    Append(defs, [key |-> alias, alias |-> node_def.alias,
                  nodeid |-> node_def.nodeid, datatype |-> node_def.datatype,
                  initial |-> node_def.initial, folder |-> node_def.folder,
                  writable |-> node_def.writable])

RECURSIVE load_rows(_, _, _)
load_rows(rows, defs, stats) ==
    IF rows = <<>> THEN [defs |-> defs, stats |-> stats]
    ELSE LET st == [stats EXCEPT !.total_rows = @ + 1]
             row == norm_row(Head(rows))
             v == validate_types(row)
         IN IF any_required_empty(row)
            THEN load_rows(Tail(rows), defs, [st EXCEPT !.skipped = @ + 1])
            ELSE IF has_alias(defs, row.alias)
            THEN load_rows(Tail(rows), defs, [st EXCEPT !.duplicates = @ + 1])
            ELSE IF ~v.ok
            THEN load_rows(Tail(rows), defs, [st EXCEPT !.errors = @ + 1])
            ELSE load_rows(Tail(rows), store(defs, row.alias, v.def),
                           [st EXCEPT !.loaded = @ + 1])

\* _check_nodes_invariants: TRUE when no assertion fails
check_nodes_invariants(s) ==
    /\ s.nodes # None
    /\ \A i, j \in 1..Len(Val(s.nodes)) :
            Val(s.nodes)[i].key = Val(s.nodes)[j].key => i = j
    /\ \A i \in 1..Len(Val(s.nodes)) :
        LET nd == Val(s.nodes)[i]
        IN /\ nd.key # <<>>
           /\ nd.datatype \in VariantTypes
           /\ nd.initial.kind \in {"bool", "int", "str", "float"}
           /\ nd.writable \in BOOLEAN

load_commit(s, loaded) ==
    LET s1 == [s EXCEPT !.nodes = Some(loaded.defs)]
    IN IF check_nodes_invariants(s1)
       THEN [s1 EXCEPT !.stats = loaded.stats, !.ret = "stats"]
       ELSE Raise([s1 EXCEPT !.nodes = s.nodes], "OpcServerError", "AssertionError")

\* the load without the check of the header's columns
load_nodes_from_csv_any_header(s, file) ==
    IF file.status = "missing" THEN Raise(s, "OpcServerError", "FileNotFoundError")
    ELSE IF file.status = "unreadable" THEN Raise(s, "OpcServerError", "OSError")
    ELSE load_commit(s, load_rows(file.rows,
                                  IF s.nodes = None THEN <<>> ELSE Val(s.nodes),
                                  NoStats))

load_nodes_from_csv(s, file) ==
    IF file.status = "missing" THEN Raise(s, "OpcServerError", "FileNotFoundError")
    ELSE IF file.status = "unreadable" THEN Raise(s, "OpcServerError", "OSError")
    ELSE IF file.header = {} THEN Raise(s, "OpcServerError", "none")
    ELSE IF \E i \in 1..Len(REQUIRED_FIELDS) : REQUIRED_FIELDS[i] \notin file.header
    THEN Raise(s, "OpcServerError", "none")
    ELSE load_commit(s, load_rows(file.rows,
                                  IF s.nodes = None THEN <<>> ELSE Val(s.nodes),
                                  NoStats))

\* ------------------------------------------------------ the CSV sources
AllColumns == {REQUIRED_FIELDS[i] : i \in 1..Len(REQUIRED_FIELDS)}

CsvFile(status, header, rows) == [status |-> status, header |-> header, rows |-> rows]

\* three rows, the second with a malformed boolean
FileThree ==
    CsvFile("ok", AllColumns \cup {"comment"}, <<
       [alias |-> <<"a", "1">>, nodeid |-> <<"n", "1">>, datatype |-> <<" ", "I", "n", "t", "3", "2">>,
        initial |-> <<"4", "2">>, folder |-> <<"f", "1">>, writable |-> <<"t", "r", "u", "e">>],
       [alias |-> <<"a", "2">>, nodeid |-> <<"n", "2">>, datatype |-> <<"b", "o", "o", "l", "e", "a", "n">>,
        initial |-> <<"m", "a", "y", "b", "e">>, folder |-> <<"f", "1">>, writable |-> <<"1">>],
       [alias |-> <<"a", "3", " ">>, nodeid |-> <<"n", "3">>, datatype |-> <<"d", "o", "u", "b", "l", "e">>,
        initial |-> <<"2", "0", ",", "5">>, folder |-> <<"f", "2">>, writable |-> <<"N", "O">>] >>)

\* a repeated alias, an empty required field, a node id used twice
FileMixed ==
    CsvFile("ok", AllColumns, <<
       [alias |-> <<"a", "4">>, nodeid |-> <<"n", "1">>, datatype |-> <<"s", "t", "r", "i", "n", "g">>,
        initial |-> <<"x">>, folder |-> <<"f", "1">>, writable |-> <<"y">>],
       [alias |-> <<"a", "4">>, nodeid |-> <<"n", "5">>, datatype |-> <<"i", "n", "t", "1", "6">>,
        initial |-> <<"7">>, folder |-> <<"f", "1">>, writable |-> <<"0">>],
       [alias |-> <<"a", "5">>, nodeid |-> <<"n", "6">>, datatype |-> <<"b", "y", "t", "e">>,
        initial |-> <<>>, folder |-> <<"f", "2">>, writable |-> <<"1">>],
       [alias |-> <<"a", "1">>, nodeid |-> <<"n", "7">>, datatype |-> <<"u", "i", "n", "t", "1", "6">>,
        initial |-> <<"3", "0", "0">>, folder |-> <<"f", "2">>, writable |-> <<"s", "í">>] >>)

CsvFiles ==
    { CsvFile("missing", {}, <<>>),
      CsvFile("unreadable", {}, <<>>),
      CsvFile("ok", {}, <<>>),
      CsvFile("ok", AllColumns \ {"writable"}, <<>>),
      FileThree,
      FileMixed }

\* the data rows generated files are made of: those of the three-row file, an
\* alias that differs from a1 by white space only, and a3 with an empty field
RowPool ==
    {FileThree.rows[i] : i \in 1..Len(FileThree.rows)}
    \cup { [alias |-> <<" ", "a", "1">>, nodeid |-> <<"n", "8">>, datatype |-> <<"F", "L", "O", "A", "T", " ">>,
            initial |-> <<"1", "e", "1">>, folder |-> <<"f", "1">>, writable |-> <<"F">>],
           [alias |-> <<"a", "3">>, nodeid |-> <<"n", "9">>, datatype |-> <<"i", "n", "t", "1", "6">>,
            initial |-> <<" ">>, folder |-> <<"f", "1">>, writable |-> <<"1">>] }

\* every file with a complete header and at most MaxRows rows of the pool
RowFiles ==
    {CsvFile("ok", AllColumns, rows) : rows \in UNION {[1..n -> RowPool] : n \in 0..MaxRows}}

\* two files in which a row whose value does not cast has the alias of a valid
\* row, after it and before it
OrderFiles ==
    LET valid == FileThree.rows[1]
        invalid == [alias |-> <<"a", "1">>, nodeid |-> <<"n", "7">>,
                    datatype |-> <<"i", "n", "t", "3", "2">>, initial |-> <<"x", "1">>,
                    folder |-> <<"f", "2">>, writable |-> <<"1">>]
    IN { CsvFile("ok", AllColumns, <<valid, invalid>>),
         CsvFile("ok", AllColumns, <<invalid, valid>>) }

\* the files a load fails on before it reads a row
StructuralFiles == {f \in CsvFiles : f.rows = <<>>}

\* ------------------------------------------------------ resolve_nodes
PointFaults == {"add_folder", "add_variable", "set_writable"}

\* a node of the address space is deleted or created: the call remembers
\* whether the endpoint was serving at that moment
touch(s) == [s EXCEPT !.edited_live = @ \/ s.running]

\* delete_nodes([root], recursive=True) on the managed root folder
delete_root(s) ==
    touch([s EXCEPT !.aspace = [@ EXCEPT !.root = FALSE, !.folders = {}, !.vars = {}]])

\* delete_nodes([objects], recursive=True)
delete_objects(s) ==
    touch([s EXCEPT !.aspace =
              [objects |-> FALSE, root |-> FALSE, folders |-> {}, vars |-> {}]])

nodeid_exists(s, nodeid) == \E v \in s.aspace.vars : v.nodeid = nodeid

Faulty(env, k, what) == env.fault.at = k /\ env.fault.what = what

count(s, field) == [s EXCEPT !.stats = [@ EXCEPT ![field] = @ + 1]]

\* folder.add_variable(...), var.set_writable() and the bookkeeping of one point
add_variable(s, node, k, env) ==
    LET handle == [nodeid |-> node.nodeid, ns |-> Val(s.idx)]
        var == [nodeid |-> node.nodeid, ns |-> Val(s.idx), name |-> node.alias,
                folder |-> node.folder, writable |-> FALSE]
        made == touch([s EXCEPT !.aspace = [@ EXCEPT !.vars = @ \cup {var}]])
        marked == touch([s EXCEPT !.aspace =
                      [@ EXCEPT !.vars = @ \cup {[var EXCEPT !.writable = TRUE]}]])
        tracked(x) == count([x EXCEPT !.resolved_nodes = Some(Append(Val(@), handle))],
                            "resolved")
    IN IF nodeid_exists(s, node.nodeid) THEN count(s, "duplicates")
       ELSE IF Faulty(env, k, "add_variable") THEN count(s, "errors")
       ELSE IF ~node.writable THEN tracked(made)
       ELSE IF Faulty(env, k, "set_writable") THEN count(made, "errors")
       ELSE tracked(marked)

\* one iteration of the loop over self._nodes.values()
resolve_point(s, node, k, env) ==
    LET s1 == count(s, "total_rows")
    IN IF node.folder \in s1.aspace.folders THEN add_variable(s1, node, k, env)
       ELSE IF Faulty(env, k, "add_folder") THEN Raise(s1, "UaError", "none")
       ELSE add_variable(touch([s1 EXCEPT !.aspace =
                                    [@ EXCEPT !.folders = @ \cup {node.folder}]]),
                         node, k, env)

\* the loop leaving out the last definition
RECURSIVE resolve_points_but_last(_, _, _, _)
resolve_points_but_last(s, defs, k, env) ==
    IF k >= Len(defs) \/ Raised(s) THEN s
    ELSE resolve_points_but_last(resolve_point(s, defs[k], k, env), defs, k + 1, env)

RECURSIVE resolve_points(_, _, _, _)
resolve_points(s, defs, k, env) ==
    IF k > Len(defs) \/ Raised(s) THEN s
    ELSE resolve_points(resolve_point(s, defs[k], k, env), defs, k + 1, env)

\* _check_nodes_resolved: TRUE when no assertion fails
check_nodes_resolved(s) ==
    /\ s.stats.total_rows = s.stats.resolved + s.stats.duplicates + s.stats.errors
    /\ s.resolved_nodes # None
    /\ Len(Val(s.resolved_nodes)) = s.stats.resolved
    /\ \A i \in 1..Len(Val(s.resolved_nodes)) :
        LET n == Val(s.resolved_nodes)[i]
        IN /\ Some(n.ns) = s.idx
           /\ s.aspace.root
           /\ \E v \in s.aspace.vars :
                v.nodeid = n.nodeid /\ v.ns = n.ns /\ v.folder \in s.aspace.folders

\* the final try block: invariants, and the rollback when one fails
resolve_finish(s, root_was_objects) ==
    IF check_general_invariants(s) /\ check_nodes_resolved(s)
    THEN [s EXCEPT !.ret = "stats"]
    ELSE LET s1 == [s EXCEPT !.resolved_nodes = Some(<<>>)]
             s2 == IF s1.server = None THEN Raise(s1, "AttributeError", "none")
                   ELSE Raise(IF root_was_objects THEN delete_objects(s1) ELSE s1,
                              "OpcServerError", "AssertionError")
         IN s2

\* the build without the automatic start
resolve_build_without_start(s, env) ==
    LET s1 == [touch(s) EXCEPT !.aspace = [@ EXCEPT !.root = TRUE],
                               !.resolved_nodes = Some(<<>>),
                               !.stats = NoStats, !.ret = "none"]
        s2 == resolve_points(s1, Val(s1.nodes), 1, env)
    IN IF Raised(s2) THEN s2 ELSE resolve_finish(s2, TRUE)

\* from the fresh root folder to the end
resolve_build(s, env) ==
    LET s1 == [touch(s) EXCEPT !.aspace = [@ EXCEPT !.root = TRUE],
                               !.resolved_nodes = Some(<<>>),
                               !.stats = NoStats, !.ret = "none"]
        s2 == resolve_points(s1, Val(s1.nodes), 1, env)
        s3 == IF ~is_started(s2)
              THEN [start(s2, DefaultRetries, DefaultBackoff, env) EXCEPT !.ret = "none"]
              ELSE s2
    IN IF Raised(s2) THEN s2
       ELSE IF Raised(s3) THEN s3
       ELSE resolve_finish(s3, TRUE)

\* the cold edit: stop, delete the previous subtree, build the new one
resolve_edit(s, env) ==
    LET s1 == IF is_started(s) THEN stop(s, FALSE, env.stop_ok) ELSE s
        found == s1.aspace.objects /\ s1.aspace.root
    IN IF Raised(s1) THEN s1
       ELSE IF found THEN Raise(delete_root(s1), "UaError", "none")
       ELSE IF ~s1.aspace.objects THEN Raise(s1, "UaError", "none")
       ELSE resolve_build(s1, env)

resolve_nodes(s, env) ==
    LET s1 == assert_general_invariants(s)
        s2 == IF ~is_created(s1) THEN create(s1, env) ELSE s1
        s3 == IF ~alias_is_loaded(s2) THEN load_nodes_from_csv(s2, env.file) ELSE s2
    IN IF Raised(s1) THEN s1
       ELSE IF Raised(s2) THEN s2
       ELSE IF Raised(s3) THEN s3
       ELSE resolve_edit(s3, env)

\* ------------------------------------------------------ export_nodes_to_json
\* build_node_dict from the Objects node with the namespace index as filter:
\* browse name and node id of every variable of that namespace; the managed
\* subtree holds all of them, one per browse name
build_node_dict(s) ==
    {[name |-> v.name, ns |-> v.ns, nodeid |-> v.nodeid] :
        v \in {x \in s.aspace.vars : Some(x.ns) = s.idx}}

\* the export writing the dict before it is filled
export_nodes_to_json_unfilled(s, env) ==
    IF ~nodes_resolved(s) THEN [s EXCEPT !.ret = "noop"]
    ELSE IF s.server = None THEN Raise(s, "AssertionError", "none")
    ELSE [s EXCEPT !.written = Some({}), !.ret = "written"]

export_nodes_to_json(s, env) ==
    IF ~nodes_resolved(s) THEN [s EXCEPT !.ret = "noop"]
    ELSE IF s.server = None THEN Raise(s, "AssertionError", "none")
    ELSE IF ~s.aspace.objects THEN Raise([s EXCEPT !.walked = TRUE], "UaError", "none")
    ELSE LET s1 == [s EXCEPT !.walked = TRUE]
         IN IF ~env.write_ok THEN Raise(s1, "OpcServerError", "OSError")
            ELSE [s1 EXCEPT !.written = Some(build_node_dict(s1)), !.ret = "written"]

\* ------------------------------------------------------ OpcClient
\* A dict is the set of its items, one per key.
dict_keys(d) == {e.key : e \in d}
dict_get(d, k) == (CHOOSE e \in d : e.key = k).value
dict_set(d, k, v) == {e \in d : e.key # k} \cup {[key |-> k, value |-> v]}

\* json.load of an object given by its members in file order: a repeated
\* name keeps the value of its last member
RECURSIVE json_load(_, _)
json_load(members, d) ==
    IF members = <<>> THEN d
    ELSE json_load(Tail(members), dict_set(d, Head(members).key, Head(members).value))

OpcClient_is_connected(c) == c.client # None

\* The log of Client.get_node since the cache was last cleared: the aliases it
\* was invoked for, those it was invoked for more than once and those it
\* raised for.
NoGets == [once |-> {}, again |-> {}, failed |-> {}]

\* NodeId.from_string, as far as the node ids of the alias sources go: a text
\* of the form ns=<index>;<type>=<identifier> parses, a text without a
\* <type>= part raises
NodeId_from_string_ok(text) ==
    text \in {"ns=2;s=n1", "ns=2;s=n3", "ns=2;s=n7", "ns=2;i=3", "ns=2;i=4"}

\* self.client.get_node(nodeid) for `alias`, returning a handle or raising
client_get_node(c, alias, ok) ==
    [c EXCEPT !.got = [once |-> @.once \cup {alias},
                       again |-> IF alias \in @.once THEN @.again \cup {alias} ELSE @.again,
                       failed |-> IF ok THEN @.failed ELSE @.failed \cup {alias}]]

\* raise of an exception of the client, with the node id and the original it carries
RaiseC(c, kind, nodeid, orig) ==
    [c EXCEPT !.exc = kind, !.nodeid = nodeid, !.original = orig]

\* NodeReadError(...) / NodeWriteError(...): __init__(self, nodeid, message,
\* original=None) needs two positional arguments, a call with fewer is a
\* TypeError
NodeError(c, kind, positional, orig) ==
    IF Len(positional) < 2 THEN RaiseC(c, "TypeError", None, "none")
    ELSE RaiseC(c, kind, Some(positional[1]), orig)

\* Client(url) and tmp.connect() of one attempt
client_connect(c, ok) ==
    LET c1 == [c EXCEPT !.n_connect = @ + 1, !.made = other_handle(c.made)]
    IN IF ok THEN c1 ELSE RaiseC(c1, "LibError", None, "none")

RECURSIVE OpcClient_connect_loop(_, _, _, _, _)
OpcClient_connect_loop(c, attempt, retries, backoff_s, env) ==
    IF attempt > retries
    THEN RaiseC(c, "ConnectionError", None, c.last_exc)
    ELSE LET t == client_connect(c, env.connect_ok[attempt])
         IN IF ~Raised(t)
            THEN [t EXCEPT !.client = Some(t.made), !.ret = "True"]
            ELSE LET f == [t EXCEPT !.exc = "none", !.last_exc = t.exc]
                 IN IF attempt < retries
                    THEN OpcClient_connect_loop(sleep(f, backoff_s * attempt), attempt + 1,
                                                retries, backoff_s, env)
                    ELSE OpcClient_connect_loop([f EXCEPT !.client = None], attempt + 1,
                                                retries, backoff_s, env)

OpcClient_connect(c, retries, backoff_s, env) ==
    IF OpcClient_is_connected(c) THEN [c EXCEPT !.ret = "True"]
    ELSE OpcClient_connect_loop(c, 1, retries, backoff_s, env)

\* the finally block of disconnect leaving the cache alone
disconnect_finally_keeps_nodes(c) == [c EXCEPT !.client = None]

\* the finally block of disconnect
disconnect_finally(c) == [c EXCEPT !.client = None, !.nodes = {}, !.got = NoGets]

OpcClient_disconnect(c, env) ==
    IF ~OpcClient_is_connected(c) THEN c
    ELSE disconnect_finally([c EXCEPT !.n_disconnect = @ + 1])

\* _get_node_by_alias resolving the alias without a look at the cache
OpcClient_get_node_by_alias_always_resolving(c, alias, env) ==
    IF ~OpcClient_is_connected(c) THEN RaiseC(c, "OpcClientError", None, "none")
    ELSE IF alias \notin dict_keys(c.aliases) THEN RaiseC(c, "OpcClientError", None, "none")
    ELSE LET ok == NodeId_from_string_ok(dict_get(c.aliases, alias))
             c1 == client_get_node(c, alias, ok)
         IN IF ~ok THEN RaiseC(c1, "OpcClientError", None, "LibError")
            ELSE [c1 EXCEPT !.nodes = dict_set(@, alias,
                        [session |-> Val(c.client), nodeid |-> dict_get(c.aliases, alias)])]

\* _get_node_by_alias: the node is dict_get(c.nodes, alias) when nothing is raised
OpcClient_get_node_by_alias(c, alias, env) ==
    IF ~OpcClient_is_connected(c) THEN RaiseC(c, "OpcClientError", None, "none")
    ELSE IF alias \notin dict_keys(c.aliases) THEN RaiseC(c, "OpcClientError", None, "none")
    ELSE IF alias \in dict_keys(c.nodes) THEN c
    ELSE LET ok == NodeId_from_string_ok(dict_get(c.aliases, alias))
             c1 == client_get_node(c, alias, ok)
         IN IF ~ok THEN RaiseC(c1, "OpcClientError", None, "LibError")
            ELSE [c1 EXCEPT !.nodes = dict_set(@, alias,
                        [session |-> Val(c.client), nodeid |-> dict_get(c.aliases, alias)])]

\* the raise of line 231: one positional argument, the message
OpcClient_read_error(c, alias, orig) ==
    NodeError(c, "NodeReadError", <<"Error de lectura de nodo: alias">>, orig)

OpcClient_read_node(c, alias, env) ==
    IF ~OpcClient_is_connected(c) THEN RaiseC(c, "OpcClientError", None, "none")
    ELSE LET g == OpcClient_get_node_by_alias(c, alias, env)
         IN IF Raised(g) THEN OpcClient_read_error([g EXCEPT !.exc = "none"], alias, g.exc)
            ELSE IF env.value_fail # "none" THEN OpcClient_read_error(g, alias, env.value_fail)
            ELSE [g EXCEPT !.ret = "value", !.used = Some(dict_get(g.nodes, alias))]

OpcClient_write_node(c, alias, env) ==
    IF ~OpcClient_is_connected(c) THEN RaiseC(c, "OpcClientError", None, "none")
    ELSE LET g == OpcClient_get_node_by_alias(c, alias, env)
         IN IF Raised(g)
            THEN NodeError([g EXCEPT !.exc = "none"], "NodeWriteError",
                           <<alias, "Error de transporte al escribir">>, g.exc)
            ELSE IF env.value_fail = "UaError"
            THEN NodeError(g, "NodeWriteError", <<alias, "Error UA al escribir">>, "UaError")
            ELSE IF env.value_fail # "none"
            THEN NodeError(g, "NodeWriteError",
                           <<alias, "Error de transporte al escribir">>, env.value_fail)
            ELSE [g EXCEPT !.ret = "written", !.used = Some(dict_get(g.nodes, alias))]

\* the load merging the file into the map it finds
OpcClient_load_aliases_merging(c, file) ==
    LET c1 == [c EXCEPT !.nodes = {}, !.got = NoGets]
    IN IF file.status # "ok" THEN RaiseC([c1 EXCEPT !.aliases = {}], "OpcClientError", None, "none")
       ELSE [c1 EXCEPT !.aliases = json_load(file.members, c.aliases)]

\* the load keeping the alias map it found when the file cannot be read
OpcClient_load_aliases_keeping(c, file) ==
    LET c1 == [c EXCEPT !.nodes = {}, !.got = NoGets]
    IN IF file.status # "ok" THEN RaiseC(c1, "OpcClientError", None, "none")
       ELSE [c1 EXCEPT !.aliases = json_load(file.members, {})]

OpcClient_load_aliases_from_json(c, file) ==
    LET c1 == [c EXCEPT !.nodes = {}, !.got = NoGets]
    IN IF file.status # "ok" THEN RaiseC([c1 EXCEPT !.aliases = {}], "OpcClientError", None, "none")
       ELSE [c1 EXCEPT !.aliases = json_load(file.members, {})]

\* ------------------------------------------------------ the alias sources
JsonFile(status, members) == [status |-> status, members |-> members]

Member(k, v) == [key |-> k, value |-> v]

\* a missing file, text that is not JSON, an unreadable file, an empty object,
\* two exports, an object that repeats a name (as in test_aliases.py), and an
\* object whose node id for a4 does not parse
AliasFiles ==
    { JsonFile("missing", <<>>),
      JsonFile("invalid", <<>>),
      JsonFile("unreadable", <<>>),
      JsonFile("ok", <<>>),
      JsonFile("ok", <<Member("a1", "ns=2;s=n1"), Member("a3", "ns=2;s=n3")>>),
      JsonFile("ok", <<Member("a1", "ns=2;s=n7"), Member("a4", "ns=2;s=n1")>>),
      JsonFile("ok", <<Member("MotorStart", "ns=2;i=3"), Member("MotorStart", "ns=2;i=4")>>),
      JsonFile("ok", <<Member("a3", "ns=2;s=n3"), Member("a4", "n4")>>) }

\* the aliases a caller reads or writes
AliasArgs == {"a1", "a3", "a4", "MotorStart", "unknown"}

\* ------------------------------------------------------ the state machine
\* The object's fields and the collaborator on entry to a call
Self ==
    [server |-> server, idx |-> idx, started |-> started, nodes |-> nodes,
     resolved_nodes |-> resolved_nodes,
     made |-> lib.made, running |-> lib.running, aspace |-> lib.aspace,
     n_server |-> 0, n_register |-> 0, n_start |-> 0, n_stop |-> 0,
     sleeps |-> <<>>, exc |-> "none", original |-> "none", cause |-> "none",
     last_exc |-> "none", ret |-> "none", stats |-> NoStats, edited_live |-> FALSE,
     walked |-> FALSE, written |-> None]

\* index of the first attempt in 1..retries the environment lets succeed, 0 if none
FirstOk(start_ok, retries) ==
    LET S == {k \in 1..retries : start_ok[k]}
    IN IF S = {} THEN 0 ELSE CHOOSE k \in S : \A j \in S : k <= j

\* A call completes (returns or raises): the fields take their final values
Complete(op, clean, s) ==
    /\ server' = s.server
    /\ idx' = s.idx
    /\ started' = s.started
    /\ nodes' = s.nodes
    /\ resolved_nodes' = s.resolved_nodes
    /\ lib' = [made |-> s.made, running |-> s.running, aspace |-> s.aspace]
    /\ last' = [op |-> op, clean |-> clean,
                exc |-> s.exc, original |-> s.original, cause |-> s.cause,
                ret |-> s.ret,
                stats |-> s.stats, n_start |-> s.n_start]
    /\ UNCHANGED <<endpoint_url, namespace>>
    /\ UNCHANGED cvars
    /\ UNCHANGED pvars

CreateFailures == {"none", "Server", "set_endpoint", "register_namespace"}

Attempts == 1..(IF MaxRetries > DefaultRetries THEN MaxRetries ELSE DefaultRetries)

NoFault == [at |-> 0, what |-> "none"]

\* What the collaborator and the file system do during one call; here every
\* call succeeds
AllOk == [fail |-> "none", start_ok |-> [k \in Attempts |-> TRUE],
          rollback_stop_ok |-> TRUE, stop_ok |-> TRUE, file |-> FileThree,
          fault |-> NoFault, write_ok |-> TRUE]

\* One environment per distinguishable course of a call: an outcome the call
\* never asks for (set_endpoint of a Server that was not made, an attempt past
\* `retries` or past the first success, the rollback's stop when an attempt
\* succeeded) is left at "ok".
CreateEnvs ==
    IF server # None THEN {AllOk}
    ELSE {[AllOk EXCEPT !.fail = f] : f \in CreateFailures}

StartCourse(e, retries) ==
    /\ \A k \in Attempts : k > retries => e.start_ok[k]
    /\ \A k \in Attempts : (\E j \in 1..(k - 1) : e.start_ok[j]) => e.start_ok[k]
    /\ ~e.rollback_stop_ok => \A k \in 1..retries : ~e.start_ok[k]

StartCourses(retries) ==
    {e \in [start_ok : [Attempts -> BOOLEAN], rollback_stop_ok : BOOLEAN] :
        StartCourse(e, retries)}

\* a call that must instantiate the Server may see that fail
CreateFailEnvs ==
    IF server = None
    THEN {[AllOk EXCEPT !.fail = f] : f \in CreateFailures \ {"none"}}
    ELSE {}

StartEnvs(retries, backoff_s) ==
    IF retries < 1 \/ backoff_s <= 0 \/ started = Some(TRUE) THEN {AllOk}
    ELSE CreateFailEnvs \cup
         {[AllOk EXCEPT !.start_ok = c.start_ok,
                        !.rollback_stop_ok = c.rollback_stop_ok] :
             c \in StartCourses(retries)}

\* the definitions a resolution pass walks through when it finds `file`
PointsOf(file) ==
    IF nodes # None THEN Val(nodes)
    ELSE LET s == load_nodes_from_csv(Self, file)
         IN IF Raised(s) THEN <<>> ELSE Val(s.nodes)

\* the faults of a pass over `defs` that do not end it: a variable that cannot
\* be added, a writable variable that cannot be marked
PointFaultsOf(defs) ==
    {NoFault}
    \cup {[at |-> k, what |-> "add_variable"] : k \in 1..Len(defs)}
    \cup {[at |-> k, what |-> "set_writable"] : k \in {j \in 1..Len(defs) : defs[j].writable}}

\* the faults that end the pass: a folder that cannot be created
FolderFaultsOf(defs) ==
    {[at |-> k, what |-> "add_folder"] :
        k \in {j \in 1..Len(defs) : \A i \in 1..(j - 1) : defs[i].folder # defs[j].folder}}

ResolveEnvs(faulty) ==
    LET stops == IF started = Some(TRUE) THEN BOOLEAN ELSE {TRUE}
        files == IF nodes = None THEN CsvFiles ELSE {FileThree}
        base == {[AllOk EXCEPT !.stop_ok = ok, !.file = file] : ok \in stops, file \in files}
    IN CreateFailEnvs \cup
       IF server # None /\ lib.aspace.root
       THEN base
       ELSE UNION {
               {[e EXCEPT !.fault = f] :
                    f \in IF faulty THEN FolderFaultsOf(PointsOf(e.file)) ELSE {}}
               \cup {[e EXCEPT !.fault = f, !.start_ok = c.start_ok,
                               !.rollback_stop_ok = c.rollback_stop_ok] :
                        f \in IF faulty THEN PointFaultsOf(PointsOf(e.file))
                                        ELSE {NoFault},
                        c \in StartCourses(DefaultRetries)} : e \in base}

Create ==
    \E env \in CreateEnvs :
        Complete("create", FALSE, create(Self, env))

Start ==
    \E retries \in 0..MaxRetries, backoff_s \in 0..MaxBackoff :
        \E env \in StartEnvs(retries, backoff_s) :
            Complete("start", FALSE, start(Self, retries, backoff_s, env))

Stop ==
    \E clean \in BOOLEAN, ok \in BOOLEAN :
        Complete("stop", clean, stop(Self, clean, ok))

Load ==
    \E file \in CsvFiles :
        Complete("load", FALSE, load_nodes_from_csv(Self, file))

\* resolve_nodes with every collaborator call on the points succeeding
Resolve ==
    \E env \in ResolveEnvs(FALSE) :
        Complete("resolve", FALSE, resolve_nodes(Self, env))

\* resolve_nodes, where adding a folder or a variable or marking it may fail
ResolveFaulty ==
    \E env \in ResolveEnvs(TRUE) :
        Complete("resolve", FALSE, resolve_nodes(Self, env))

\* export_nodes_to_json, the destination writable or not
Export ==
    \E ok \in BOOLEAN :
        Complete("export", FALSE, export_nodes_to_json(Self, [AllOk EXCEPT !.write_ok = ok]))

\* The client's fields and its collaborator on entry to a call
CSelf ==
    [client |-> cli_client, aliases |-> cli_aliases, nodes |-> cli_nodes,
     made |-> cli_lib.made, got |-> cli_lib.got,
     n_connect |-> 0, n_disconnect |-> 0, sleeps |-> <<>>,
     exc |-> "none", nodeid |-> None, original |-> "none", last_exc |-> "none",
     ret |-> "none", used |-> None]

\* A call of the client completes (returns or raises)
CComplete(op, alias, c) ==
    /\ cli_client' = c.client
    /\ cli_aliases' = c.aliases
    /\ cli_nodes' = c.nodes
    /\ cli_lib' = [made |-> c.made, got |-> c.got]
    /\ cli_last' = [op |-> op, alias |-> alias, exc |-> c.exc, nodeid |-> c.nodeid,
                    original |-> c.original, ret |-> c.ret, n_connect |-> c.n_connect]
    /\ UNCHANGED svars
    /\ UNCHANGED pvars

\* the environment of a call of the client; here everything succeeds
ClientOk == [connect_ok |-> [k \in Attempts |-> TRUE], value_fail |-> "none"]

\* one course per distinguishable connect: attempts past `retries` or past the
\* first success are left at "ok"
ConnectCourses(retries) ==
    {[ClientOk EXCEPT !.connect_ok = ok] : ok \in
        {f \in [Attempts -> BOOLEAN] :
            /\ \A k \in Attempts : k > retries => f[k]
            /\ \A k \in Attempts : (\E j \in 1..(k - 1) : f[j]) => f[k]}}

\* what get_value / set_value can do
AccessEnvs ==
    {[ClientOk EXCEPT !.value_fail = v] : v \in {"none", "UaError", "OSError"}}

Connect ==
    \E retries \in 0..MaxRetries, backoff_s \in 1..MaxBackoff :
        \E env \in (IF cli_client # None THEN {ClientOk} ELSE ConnectCourses(retries)) :
            CComplete("connect", "", OpcClient_connect(CSelf, retries, backoff_s, env))

Disconnect ==
    CComplete("disconnect", "", OpcClient_disconnect(CSelf, ClientOk))

ReadNode ==
    \E alias \in AliasArgs, env \in AccessEnvs :
        CComplete("read", alias, OpcClient_read_node(CSelf, alias, env))

WriteNode ==
    \E alias \in AliasArgs, env \in AccessEnvs :
        CComplete("write", alias, OpcClient_write_node(CSelf, alias, env))

LoadAliases ==
    \E file \in AliasFiles :
        CComplete("load_aliases", "", OpcClient_load_aliases_from_json(CSelf, file))

\* load_nodes_from_csv on a generated file, or on one it cannot read
LoadRows ==
    \E file \in RowFiles \cup OrderFiles \cup StructuralFiles :
        Complete("load", FALSE, load_nodes_from_csv(Self, file))

InitObjects ==
    /\ endpoint_url \in EndpointUrls
    /\ namespace \in Namespaces
    /\ server = None
    /\ idx = None
    /\ started = None
    /\ nodes = None
    /\ resolved_nodes = None
    /\ lib = [made |-> "none", running |-> FALSE, aspace |-> EmptySpace]
    /\ last = [op |-> "init", clean |-> FALSE,
               exc |-> "none", original |-> "none", cause |-> "none",
               ret |-> "none", stats |-> NoStats, n_start |-> 0]
    /\ cli_client = None
    /\ cli_aliases = {}
    /\ cli_nodes = {}
    /\ cli_lib = [made |-> "none", got |-> NoGets]
    /\ cli_last = [op |-> "init", alias |-> "", exc |-> "none", nodeid |-> None,
                   original |-> "none", ret |-> "none", n_connect |-> 0]

Init ==
    /\ InitObjects
    /\ vt_in = None
    /\ vt_out = None

\* validate_types called on one dict
Validate ==
    /\ vt_in # None
    /\ vt_out = None
    /\ vt_out' = Some(validate_types(Val(vt_in)))
    /\ UNCHANGED <<vt_in, svars, cvars>>

Next == Create \/ Start \/ Stop \/ Load \/ Resolve \/ Export

Spec == Init /\ [][Next]_vars

NextFaults == Create \/ Start \/ Stop \/ Load \/ ResolveFaulty

SpecFaults == Init /\ [][NextFaults]_vars

\* the definition loader alone, over generated files, on a manager built with
\* a valid endpoint and namespace (the loader reads neither)
InitLoader ==
    /\ Init
    /\ startswith(endpoint_url, OPC_TCP)
    /\ namespace # ""

NextLoader == LoadRows

SpecLoader == InitLoader /\ [][NextLoader]_vars

\* validate_types alone, on every dict of CastRows
InitCast ==
    /\ InitObjects
    /\ startswith(endpoint_url, OPC_TCP)
    /\ namespace # ""
    /\ vt_in \in {Some(r) : r \in CastRows}
    /\ vt_out = None

NextCast == Validate

SpecCast == InitCast /\ [][NextCast]_vars

\* the client alone, beside a server manager that nobody calls
NextClient == Connect \/ Disconnect \/ ReadNode \/ WriteNode \/ LoadAliases

SpecClient == InitLoader /\ [][NextClient]_vars

\* ------------------------------------------------------ inputs of the checks
RetryArgs == -1..MaxRetries
BackoffArgs == -1..MaxBackoff

\* every way the attempts of one start() and its rollback can go
AllCourses == [start_ok : [Attempts -> BOOLEAN], rollback_stop_ok : BOOLEAN]

\* the two extreme ones: every attempt succeeds, every attempt and the
\* rollback's stop fail
ExtremeCourses ==
    {[start_ok |-> [k \in Attempts |-> ok], rollback_stop_ok |-> ok] : ok \in BOOLEAN}

EnvOf(f, c) ==
    [AllOk EXCEPT !.fail = f, !.start_ok = c.start_ok,
                  !.rollback_stop_ok = c.rollback_stop_ok]

\* the object a call leaves behind, on entry to the next call
After(s) ==
    [s EXCEPT !.n_server = 0, !.n_register = 0, !.n_start = 0, !.n_stop = 0,
              !.sleeps = <<>>, !.exc = "none", !.original = "none", !.cause = "none",
              !.last_exc = "none", !.ret = "none", !.stats = NoStats,
              !.edited_live = FALSE, !.walked = FALSE, !.written = None]

\* the call left every field of the object as it found it
SameFields(s) ==
    /\ s.server = server
    /\ s.idx = idx
    /\ s.started = started
    /\ s.nodes = nodes
    /\ s.resolved_nodes = resolved_nodes

\* the call invoked no primitive of the collaborator
NoPrimitive(s) ==
    s.n_server = 0 /\ s.n_register = 0 /\ s.n_start = 0 /\ s.n_stop = 0

ConfigOk == startswith(endpoint_url, OPC_TCP) /\ namespace # ""

\* ------------------------------------------------------ C1
\* C1: after every completed call, returned or raised, the namespace index is
\* present iff the handle is present, and started implies both are present.
ConnectionStateInvariant ==
    /\ (idx # None <=> server # None)
    /\ (started = Some(TRUE) => server # None /\ idx # None)

\* a resolve that raised after its automatic start used up the retries
C1_Witness ==
    /\ last.op = "resolve"
    /\ last.exc = "OpcServerError"
    /\ last.n_start = DefaultRetries
    /\ server = None /\ idx = None /\ started = Some(FALSE)

\* ------------------------------------------------------ C2
\* C2: when every underlying start attempt fails, start raises OpcServerError
\* and leaves handle and namespace index absent and started false, from Absent
\* and from Created alike.
StartExhaustedRollsBack ==
    \A r \in 1..MaxRetries, b \in 1..MaxBackoff, c \in AllCourses :
        LET s == start(Self, r, b, EnvOf("none", c))
        IN (s.n_start = r /\ FirstOk(c.start_ok, r) = 0) =>
              /\ s.exc = "OpcServerError"
              /\ s.server = None
              /\ s.idx = None
              /\ s.started = Some(FALSE)

\* a start that failed after more than one attempt
C2_Witness ==
    /\ last.op = "start"
    /\ last.exc = "OpcServerError"
    /\ last.n_start >= 2
    /\ server = None /\ idx = None

\* ------------------------------------------------------ C3
\* C3: start on a Started manager returns True without invoking the underlying
\* start (or any other primitive) and changes no field.
StartIdempotent ==
    started = Some(TRUE) =>
        \A r \in 1..MaxRetries, b \in 1..MaxBackoff, f \in CreateFailures,
           c \in ExtremeCourses :
            LET s == start(Self, r, b, EnvOf(f, c))
            IN s.ret = "True" /\ ~Raised(s) /\ NoPrimitive(s) /\ SameFields(s)

\* a start that returned True without an attempt, on a Started manager
C3_Witness ==
    /\ last.op = "start"
    /\ last.ret = "True"
    /\ last.n_start = 0
    /\ started = Some(TRUE)

\* ------------------------------------------------------ C4
\* C4: after stop(clean=True) on a created manager the handle and the namespace
\* index are absent, started is false, no definitions are loaded and the
\* resolved node set is empty.
CleanStopResetsEveryField ==
    (last.op = "stop" /\ last.clean /\ last.ret = "True") =>
        /\ server = None
        /\ idx = None
        /\ started = Some(FALSE)
        /\ nodes = None
        /\ (resolved_nodes = None \/ Val(resolved_nodes) = <<>>)

\* ------------------------------------------------------ C5
\* C5: stop(clean=False) on a created manager returns True and changes only the
\* started flag, to false: handle, index, definitions and resolved nodes stay.
NormalStopOnlyClearsStarted ==
    server # None =>
        \A ok \in BOOLEAN :
            LET s == stop(Self, FALSE, ok)
            IN /\ s.ret = "True" /\ ~Raised(s)
               /\ s.started = Some(FALSE)
               /\ s.server = server /\ s.server # None
               /\ s.idx = idx /\ s.idx # None
               /\ s.nodes = nodes
               /\ s.resolved_nodes = resolved_nodes

\* a normal stop that left a created manager with its definitions
C5_Witness ==
    /\ last.op = "stop" /\ ~last.clean /\ last.ret = "True"
    /\ server # None /\ idx # None /\ nodes # None
    /\ started = Some(FALSE)

\* ------------------------------------------------------ C6
\* C6: from Started, stop(clean=False) and then a start whose underlying start
\* succeeds ends Started with the same handle and index, instantiating no
\* Server and registering no namespace.
RestartKeepsHandle ==
    started = Some(TRUE) =>
        \A ok \in BOOLEAN, r \in 1..MaxRetries, b \in 1..MaxBackoff, c \in AllCourses :
            FirstOk(c.start_ok, r) > 0 =>
                LET s1 == stop(Self, FALSE, ok)
                    s2 == start(After(s1), r, b, EnvOf("none", c))
                IN /\ s2.ret = "True" /\ ~Raised(s2)
                   /\ s2.started = Some(TRUE)
                   /\ s2.server = server
                   /\ s2.idx = idx
                   /\ s2.n_server = 0 /\ s2.n_register = 0
                   /\ s2.n_start = FirstOk(c.start_ok, r)

\* a Started manager that a normal stop takes to Created and a start whose
\* second attempt succeeds takes back to Started
C6_Witness ==
    /\ started = Some(TRUE)
    /\ last.op = "start"
    /\ \E c \in AllCourses :
        LET s1 == stop(Self, FALSE, TRUE)
            s2 == start(After(s1), MaxRetries, MaxBackoff, EnvOf("none", c))
        IN /\ s1.started = Some(FALSE) /\ s1.server # None
           /\ s2.started = Some(TRUE) /\ s2.n_start = 2

\* ------------------------------------------------------ C7
\* C7: a failing step of create on an Absent manager (Server(), set_endpoint,
\* register_namespace, or the invariant check in the registration) makes create
\* raise OpcServerError and leaves handle and index absent.
CreateFailureLeavesAbsent ==
    server = None =>
        \A f \in CreateFailures :
            LET s == create(Self, EnvOf(f, AllOk))
            IN /\ (f # "none" \/ ~ConfigOk) => s.exc = "OpcServerError"
               /\ Raised(s) => /\ s.exc = "OpcServerError"
                               /\ s.server = None
                               /\ s.idx = None

\* a create that failed in the invariant check of the registration
C7_Witness ==
    /\ last.op = "create"
    /\ last.exc = "OpcServerError"
    /\ last.cause = "AssertionError"
    /\ server = None /\ idx = None

\* ------------------------------------------------------ C8
\* C8: create on a Created or Started manager instantiates no Server, registers
\* no namespace and leaves handle, index and started flag as they were.
CreateIdempotent ==
    server # None =>
        \A f \in CreateFailures :
            LET s == create(Self, EnvOf(f, AllOk))
            IN ~Raised(s) /\ NoPrimitive(s) /\ SameFields(s)

\* a create that returned on a Started manager
C8_Witness ==
    /\ last.op = "create"
    /\ last.exc = "none"
    /\ server # None
    /\ started = Some(TRUE)

\* ------------------------------------------------------ C9
\* C9: start with retries < 1 or backoff_s <= 0 raises ValueError before any
\* primitive is invoked and changes no field, in every state.
StartRejectsBadArguments ==
    \A r \in RetryArgs, b \in BackoffArgs, f \in CreateFailures, c \in ExtremeCourses :
        (r < 1 \/ b <= 0) =>
            LET s == start(Self, r, b, EnvOf(f, c))
            IN s.exc = "ValueError" /\ NoPrimitive(s) /\ SameFields(s)

\* a start that raised ValueError
C9_Witness ==
    /\ last.op = "start"
    /\ last.exc = "ValueError"
    /\ last.n_start = 0

\* ------------------------------------------------------ C10
\* C10: a start(retries = r, backoff_s = b) that reaches its attempts invokes
\* the underlying start k times when attempt k is the first to succeed and r
\* times when none does; it sleeps b*j after the failed attempt j, except
\* after the last one, so at most r attempts and r - 1 sleeps.
RetrySchedule ==
    (ConfigOk /\ started # Some(TRUE)) =>
        \A r \in 1..MaxRetries, b \in 1..MaxBackoff, c \in AllCourses :
            LET s == start(Self, r, b, EnvOf("none", c))
                k == FirstOk(c.start_ok, r)
                n == IF k > 0 THEN k ELSE r
            IN /\ s.n_start = n
               /\ s.sleeps = [j \in 1..(n - 1) |-> b * j]
               /\ Len(s.sleeps) <= r - 1
               /\ (k > 0 => s.ret = "True")
               /\ (k = 0 => s.exc = "OpcServerError")

\* a start that succeeded at a later attempt than the first
C10_Witness ==
    /\ last.op = "start"
    /\ last.ret = "True"
    /\ last.n_start >= 2
    /\ started = Some(TRUE)

RowAlias(row) == strip(row.alias)
RowComplete(row) == ~any_required_empty(norm_row(row))
RowValid(row) == validate_types(norm_row(row)).ok

\* the keys of a definition dict
Keys(defs) == {defs[i].key : i \in 1..Len(defs)}

\* the committed definitions on entry to a call, as a dict
Committed == IF nodes = None THEN <<>> ELSE Val(nodes)

\* ------------------------------------------------------ C12
\* C12: for every CSV file whose header has the required columns the load
\* returns statistics with total_rows the number of data rows and
\* total_rows = loaded + skipped + duplicates + errors.
LoaderConservation ==
    \A file \in RowFiles :
        LET s == load_nodes_from_csv(Self, file)
        IN /\ ~Raised(s) /\ s.ret = "stats"
           /\ s.stats.total_rows = Len(file.rows)
           /\ s.stats.total_rows =
                s.stats.loaded + s.stats.skipped + s.stats.duplicates + s.stats.errors

\* a load of two rows, one a duplicate and one with a malformed value
C12_Witness ==
    /\ last.op = "load" /\ last.ret = "stats"
    /\ last.stats.total_rows = 2
    /\ last.stats.duplicates = 1
    /\ last.stats.errors = 1

\* ------------------------------------------------------ C13
\* C13: a row with every required field whose alias is already a key, from
\* the committed set or from an earlier loaded row of the same file, is counted
\* as a duplicate and not loaded; the definitions committed before stay as and
\* where they were, each new key gets the definition of the first valid row
\* that has it, and loading the same file again loads nothing and leaves the
\* definition set unchanged.
DuplicateAliasKeepsEarlier ==
    \A file \in RowFiles :
        LET rows == file.rows
            pre == Committed
            s == load_nodes_from_csv(Self, file)
            again == load_nodes_from_csv(After(s), file)
            Loaded(k) == /\ RowComplete(rows[k]) /\ RowValid(rows[k])
                         /\ RowAlias(rows[k]) \notin Keys(pre)
                         /\ \A j \in 1..(k - 1) :
                                (RowComplete(rows[j]) /\ RowValid(rows[j]))
                                    => RowAlias(rows[j]) # RowAlias(rows[k])
            Dup(k) == /\ RowComplete(rows[k])
                      /\ \/ RowAlias(rows[k]) \in Keys(pre)
                         \/ \E j \in 1..(k - 1) :
                                Loaded(j) /\ RowAlias(rows[j]) = RowAlias(rows[k])
            new == SubSeq(Val(s.nodes), Len(pre) + 1, Len(Val(s.nodes)))
        IN /\ ~Raised(s)
           /\ s.stats.duplicates = Cardinality({k \in 1..Len(rows) : Dup(k)})
           /\ s.stats.loaded = Cardinality({k \in 1..Len(rows) : Loaded(k)})
           /\ Len(Val(s.nodes)) = Len(pre) + s.stats.loaded
           /\ SubSeq(Val(s.nodes), 1, Len(pre)) = pre
           /\ \A i, j \in 1..Len(Val(s.nodes)) :
                Val(s.nodes)[i].key = Val(s.nodes)[j].key => i = j
           /\ \A i \in 1..Len(new) :
                \E k \in 1..Len(rows) :
                    /\ Loaded(k)
                    /\ new[i] = store(<<>>, RowAlias(rows[k]),
                                      validate_types(norm_row(rows[k])).def)[1]
           /\ ~Raised(again)
           /\ again.stats.loaded = 0
           /\ again.nodes = s.nodes

\* a load whose second row repeated, up to white space, the alias of its first
\* row with another definition: the committed definition is the first row's
C13_Witness ==
    /\ last.op = "load" /\ last.ret = "stats"
    /\ last.stats.loaded = 1 /\ last.stats.duplicates = 1
    /\ nodes # None /\ Len(Val(nodes)) = 1
    /\ Val(nodes)[1].key = <<"a", "1">>
    /\ Val(nodes)[1].datatype = "Float"

\* ------------------------------------------------------ C14
\* C14: a load that fails (file missing or unreadable, no header, header
\* without a required column, post-load invariant violation) raises
\* OpcServerError and leaves the committed definitions as they were; the
\* committed definitions differ after a load only when it returned statistics.
StructuralFailureKeepsCommitted ==
    \A file \in RowFiles \cup CsvFiles :
        LET s == load_nodes_from_csv(Self, file)
            structural == \/ file.status # "ok"
                          \/ ~(AllColumns \subseteq file.header)
        IN /\ structural => Raised(s)
           /\ Raised(s) => /\ s.exc = "OpcServerError"
                           /\ s.nodes = nodes
                           /\ s.ret = "none"
           /\ s.nodes # nodes => s.ret = "stats" /\ ~Raised(s)
           /\ SameFields([s EXCEPT !.nodes = nodes])

\* a load that failed on a header without the `writable` column, after an
\* earlier load had committed definitions
C14_Witness ==
    /\ last.op = "load"
    /\ last.exc = "OpcServerError" /\ last.original = "none"
    /\ nodes # None /\ Len(Val(nodes)) >= 2

\* ------------------------------------------------------ C15
\* C15: every committed definition is stored under a non-empty key equal to
\* its alias, no key occurs twice, its datatype is a member of the variant-type
\* enumeration, its initial value is a value (not None) and its writable field
\* is a boolean.
CommittedDefinitionInvariant ==
    nodes # None =>
        /\ \A i, j \in 1..Len(Val(nodes)) :
              Val(nodes)[i].key = Val(nodes)[j].key => i = j
        /\ \A i \in 1..Len(Val(nodes)) :
              LET nd == Val(nodes)[i]
              IN /\ nd.key # <<>>
                 /\ nd.alias = nd.key
                 /\ nd.datatype \in VariantTypes
                 /\ nd.initial # None
                 /\ nd.initial.kind \in {"bool", "int", "str", "float"}
                 /\ nd.writable \in BOOLEAN

\* two committed definitions, one writable and one not, of different types
C15_Witness ==
    /\ nodes # None /\ Len(Val(nodes)) = 2
    /\ Val(nodes)[1].writable /\ ~Val(nodes)[2].writable
    /\ Val(nodes)[1].datatype = "Int32" /\ Val(nodes)[2].datatype = "Double"
    /\ Val(nodes)[2].initial = PyFloat(205, -1)

\* ------------------------------------------------------ inputs of the resolver checks
\* the nodes of the managed subtree: the root folder, its folders, their variables
ManagedNodes(a) ==
    (IF a.root THEN 1 ELSE 0) + Cardinality(a.folders) + Cardinality(a.vars)

\* ------------------------------------------------------ C16
\* C16: after a resolve that returned statistics, total_rows is the number of
\* committed definitions and equals resolved + duplicates + errors, the resolved
\* node set has `resolved` entries, and every handle in it has the registered
\* namespace index and is a variable of a folder of the root under Objects.
ResolveSuccessInvariant ==
    (last.op = "resolve" /\ last.ret = "stats") =>
        /\ nodes # None /\ idx # None /\ resolved_nodes # None
        /\ last.stats.total_rows = Len(Val(nodes))
        /\ last.stats.total_rows =
              last.stats.resolved + last.stats.duplicates + last.stats.errors
        /\ Len(Val(resolved_nodes)) = last.stats.resolved
        /\ lib.aspace.objects /\ lib.aspace.root
        /\ \A i \in 1..Len(Val(resolved_nodes)) :
              LET n == Val(resolved_nodes)[i]
              IN /\ n.ns = Val(idx)
                 /\ \E v \in lib.aspace.vars :
                       /\ v.nodeid = n.nodeid /\ v.ns = n.ns
                       /\ v.folder \in lib.aspace.folders

\* a pass over three definitions: one resolved, one whose variable could not
\* be added, one whose node id already existed
C16_Witness ==
    /\ last.op = "resolve" /\ last.ret = "stats"
    /\ last.stats.total_rows = 3
    /\ last.stats.resolved = 1 /\ last.stats.duplicates = 1 /\ last.stats.errors = 1
    /\ Len(Val(resolved_nodes)) = 1

\* ------------------------------------------------------ C17
\* C17: after a resolve that returned statistics, a second resolve on the same
\* definitions, with every collaborator call succeeding, returns statistics
\* with the same resolved count and leaves as many managed nodes as the first,
\* in a root folder under Objects.
ResolveRerunReplacesSubtree ==
    (last.op = "resolve" /\ last.ret = "stats") =>
        LET s == resolve_nodes(Self, AllOk)
        IN /\ ~Raised(s) /\ s.ret = "stats"
           /\ s.stats.resolved = last.stats.resolved
           /\ ManagedNodes(s.aspace) = ManagedNodes(lib.aspace)
           /\ s.aspace.objects /\ s.aspace.root

\* ------------------------------------------------------ C18
\* C18: a resolve that raises leaves the resolved node set as it found it or
\* empty: never a set built, wholly or in part, by the pass that raised.
ResolvedSetOnlyReplacedOnSuccess ==
    \A env \in ResolveEnvs(FALSE) :
        LET s == resolve_nodes(Self, env)
        IN Raised(s) => \/ s.resolved_nodes = resolved_nodes
                        \/ ~nodes_resolved(s)

\* ------------------------------------------------------ C19
\* C19: a pass in which one collaborator call on one point fails (creating its
\* folder, adding its variable, marking it writable) still walks every
\* definition and returns statistics, whenever the same pass without the
\* failure does; a failed folder creation is counted as an error.
PointFailureIsolated ==
    \A env \in ResolveEnvs(TRUE) :
        LET s == resolve_nodes(Self, env)
            clear == resolve_nodes(Self, [env EXCEPT !.fault = NoFault])
        IN (env.fault # NoFault /\ clear.ret = "stats") =>
              /\ ~Raised(s) /\ s.ret = "stats"
              /\ s.stats.total_rows = clear.stats.total_rows
              /\ s.stats.total_rows =
                    s.stats.resolved + s.stats.duplicates + s.stats.errors
              /\ (env.fault.what = "add_folder" => s.stats.errors >= 1)

\* ------------------------------------------------------ C20
\* C20: no node is deleted or created by resolve while the endpoint is
\* serving, whether or not the manager was started when resolve was called.
ColdEdit ==
    \A env \in ResolveEnvs(FALSE) :
        ~resolve_nodes(Self, env).edited_live

\* ------------------------------------------------------ C21
\* C21: in every reachable state export ends in one of three ways: nothing
\* done (the resolved node set is empty: no walk, nothing written), the mapping
\* written to the destination, or OpcServerError raised for the failed write.
ExportOutcomes ==
    \A ok \in BOOLEAN :
        LET s == export_nodes_to_json(Self, [AllOk EXCEPT !.write_ok = ok])
        IN \/ /\ ~nodes_resolved(Self)
              /\ s.ret = "noop" /\ ~Raised(s) /\ ~s.walked /\ s.written = None
           \/ /\ nodes_resolved(Self)
              /\ s.ret = "written" /\ ~Raised(s) /\ s.written # None
           \/ /\ nodes_resolved(Self)
              /\ s.exc = "OpcServerError" /\ s.original = "OSError"
              /\ s.written = None

\* ------------------------------------------------------ inputs of the client checks
\* the mapping a JSON object stands for: each name with the value of its last member
FileMapping(file) ==
    {[key |-> file.members[i].key, value |-> file.members[i].value] :
        i \in {k \in 1..Len(file.members) :
                 \A j \in (k + 1)..Len(file.members) :
                    file.members[j].key # file.members[k].key}}

\* ------------------------------------------------------ C22
\* C22: after disconnect and after every load_aliases_from_json the cache of
\* resolved nodes is empty; a non-empty cache implies a connected client, and
\* every cached node was resolved in the current session from the node id the
\* current alias map gives its alias; the node a read or write uses is such a node.
ClientCacheInvalidation ==
    /\ cli_last.op \in {"disconnect", "load_aliases"} => cli_nodes = {}
    /\ cli_nodes # {} => cli_client # None
    /\ \A e \in cli_nodes :
          /\ e.key \in dict_keys(cli_aliases)
          /\ e.value.session = Val(cli_client)
          /\ e.value.nodeid = dict_get(cli_aliases, e.key)
    /\ OpcClient_disconnect(CSelf, ClientOk).nodes = {}
    /\ \A file \in AliasFiles : OpcClient_load_aliases_from_json(CSelf, file).nodes = {}
    /\ \A alias \in AliasArgs, env \in AccessEnvs :
          LET r == OpcClient_read_node(CSelf, alias, env)
              w == OpcClient_write_node(CSelf, alias, env)
              Current(u) == u # None =>
                              /\ Val(u).session = Val(cli_client)
                              /\ Val(u).nodeid = dict_get(cli_aliases, alias)
          IN Current(r.used) /\ Current(w.used)

\* a connected client with two cached nodes, which a disconnect and a reload
\* both take away
C22_Witness ==
    /\ cli_client # None
    /\ Cardinality(cli_nodes) = 2
    /\ OpcClient_disconnect(CSelf, ClientOk).nodes = {}
    /\ \E file \in AliasFiles :
          LET c == OpcClient_load_aliases_from_json(CSelf, file)
          IN c.aliases # {} /\ c.aliases # cli_aliases /\ c.nodes = {}

\* ------------------------------------------------------ C23
\* C23: on a connected client a read_node that raises raises NodeReadError and
\* a write_node that raises raises NodeWriteError, each with the alias and the
\* original exception.
ClientErrorsAreTyped ==
    cli_client # None =>
        \A alias \in AliasArgs, env \in AccessEnvs :
            LET r == OpcClient_read_node(CSelf, alias, env)
                w == OpcClient_write_node(CSelf, alias, env)
            IN /\ Raised(r) => /\ r.exc = "NodeReadError"
                               /\ r.nodeid = Some(alias)
                               /\ r.original # "none"
               /\ Raised(w) => /\ w.exc = "NodeWriteError"
                               /\ w.nodeid = Some(alias)
                               /\ w.original # "none"

\* ------------------------------------------------------ C24
\* C24: a load_aliases_from_json that returns leaves as alias map exactly the
\* mapping of the file, whatever the map was before.
AliasMapReplaced ==
    \A file \in AliasFiles :
        LET c == OpcClient_load_aliases_from_json(CSelf, file)
        IN ~Raised(c) => c.aliases = FileMapping(file)

\* a loaded map of two aliases that the load of another file replaces by a map
\* without one of them and with another node id for the other
C24_Witness ==
    /\ cli_last.op = "load_aliases" /\ cli_last.exc = "none"
    /\ dict_keys(cli_aliases) = {"a1", "a3"}
    /\ \E file \in AliasFiles :
          LET c == OpcClient_load_aliases_from_json(CSelf, file)
          IN /\ ~Raised(c)
             /\ dict_keys(c.aliases) = {"a1", "a4"}
             /\ dict_get(c.aliases, "a1") # dict_get(cli_aliases, "a1")

\* ------------------------------------------------------ inputs of the casting checks
\* the words of the boolean rule
BoolTrueWords == { <<"1">>, <<"t", "r", "u", "e">>, <<"t">>, <<"y", "e", "s">>, <<"y">>, <<"s", "i">>, <<"s", "í">> }
BoolFalseWords == { <<"0">>, <<"f", "a", "l", "s", "e">>, <<"f">>, <<"n", "o">>, <<"n">>, <<>> }

\* a text after trimming and lower-casing
Normal(text) == lower(strip(text))

\* the datatype names of the integer family and of the floating family
IntegerNames ==
    { [key |-> <<"s", "b", "y", "t", "e">>, vtype |-> "SByte"],
      [key |-> <<"b", "y", "t", "e">>, vtype |-> "Byte"],
      [key |-> <<"i", "n", "t", "1", "6">>, vtype |-> "Int16"],
      [key |-> <<"u", "i", "n", "t", "1", "6">>, vtype |-> "UInt16"],
      [key |-> <<"i", "n", "t", "3", "2">>, vtype |-> "Int32"],
      [key |-> <<"u", "i", "n", "t", "3", "2">>, vtype |-> "UInt32"],
      [key |-> <<"i", "n", "t", "6", "4">>, vtype |-> "Int64"],
      [key |-> <<"u", "i", "n", "t", "6", "4">>, vtype |-> "UInt64"] }
FloatNames ==
    { [key |-> <<"f", "l", "o", "a", "t">>, vtype |-> "Float"],
      [key |-> <<"d", "o", "u", "b", "l", "e">>, vtype |-> "Double"] }

\* the base-10 integer literals among InitialTexts with their values: an
\* optional sign, digits, single underscores between digits
IntLiterals ==
    { [text |-> <<"4", "2">>, value |-> 42],
      [text |-> <<"-", "7">>, value |-> -7],
      [text |-> <<"+", "5">>, value |-> 5],
      [text |-> <<"4", "_", "2">>, value |-> 42],
      [text |-> <<"0", "0", "7">>, value |-> 7],
      [text |-> <<"3", "0", "0">>, value |-> 300],
      [text |-> <<"2", "5", "6">>, value |-> 256],
      [text |-> <<"2", "5", "5">>, value |-> 255],
      [text |-> <<"-", "1", "2", "9">>, value |-> -129],
      [text |-> <<"-", "1", "2", "8">>, value |-> -128],
      [text |-> <<"-", "1">>, value |-> -1],
      [text |-> <<"6", "5", "5", "3", "6">>, value |-> 65536],
      [text |-> <<"1">>, value |-> 1],
      [text |-> <<"0">>, value |-> 0],
      [text |-> <<"2">>, value |-> 2] }

\* float literals among InitialTexts with their values m * 10^e, the ones
\* written with a comma next to the ones written with a dot
FloatLiterals ==
    { [text |-> <<"2", "0", ",", "5">>, m |-> 205, e |-> -1],
      [text |-> <<"2", "0", ".", "5">>, m |-> 205, e |-> -1],
      [text |-> <<".", "5">>, m |-> 5, e |-> -1],
      [text |-> <<"-", "0", ",", "2", "5">>, m |-> -25, e |-> -2],
      [text |-> <<"1", "e", "-", "2">>, m |-> 1, e |-> -2],
      [text |-> <<"1", "e", "3">>, m |-> 1, e |-> 3],
      [text |-> <<"1", ".", "0">>, m |-> 1, e |-> 0],
      [text |-> <<"4", "2">>, m |-> 42, e |-> 0],
      [text |-> <<"-", "7">>, m |-> -7, e |-> 0],
      [text |-> <<"+", "5">>, m |-> 5, e |-> 0],
      [text |-> <<"0">>, m |-> 0, e |-> 0],
      [text |-> <<"1">>, m |-> 1, e |-> 0],
      [text |-> <<"2">>, m |-> 2, e |-> 0],
      [text |-> <<"3", "0", "0">>, m |-> 3, e |-> 2],
      [text |-> <<"2", "5", "5">>, m |-> 255, e |-> 0] }

\* the call under check: its argument and, once made, its outcome
CastDone == vt_in # None /\ vt_out # None
CastRow == Val(vt_in)
CastOut == Val(vt_out)

\* the `writable` of the row is one of the boolean words
WritableParses ==
    /\ CastRow.writable # Absent
    /\ Normal(CastRow.writable) \in BoolTrueWords \cup BoolFalseWords

\* ------------------------------------------------------ C25
\* C25: for a boolean point, `initial` trimmed and lower-cased casts to True
\* when it is one of 1, true, t, yes, y, si, sí, to False when it is one of
\* 0, false, f, no, n or empty, and otherwise validate_types raises ValueError;
\* `writable` of any point whose datatype and initial are accepted is cast by
\* the same rule.
BooleanCasting ==
    (CastDone /\ CastRow.datatype # Absent) =>
        LET low == Normal(get_initial(CastRow))
            w == Normal(CastRow.writable)
            reached == validate_types([CastRow EXCEPT !.writable = <<"1">>]).ok
        IN /\ (Normal(CastRow.datatype) = <<"b", "o", "o", "l", "e", "a", "n">>) =>
                /\ (low \notin BoolTrueWords \cup BoolFalseWords) =>
                      ~CastOut.ok /\ CastOut.exc = "ValueError"
                /\ (low \in BoolTrueWords \cup BoolFalseWords) => reached
                /\ CastOut.ok => /\ CastOut.def.datatype = "Boolean"
                                 /\ CastOut.def.initial = PyBool(low \in BoolTrueWords)
           /\ (reached /\ CastRow.writable # Absent) =>
                /\ (w \in BoolTrueWords) => CastOut.ok /\ CastOut.def.writable = TRUE
                /\ (w \in BoolFalseWords) => CastOut.ok /\ CastOut.def.writable = FALSE
                /\ (w \notin BoolTrueWords \cup BoolFalseWords) =>
                      ~CastOut.ok /\ CastOut.exc = "ValueError"

\* a boolean point given in upper case and padded: both casts give True
C25_Witness ==
    /\ CastDone
    /\ CastRow.datatype = <<"B", "O", "O", "L", "E", "A", "N", "\t">>
    /\ CastRow.initial = <<"S", "Í">>
    /\ CastRow.writable = <<"\t", "Y", "E", "S", " ">>
    /\ CastOut.ok
    /\ CastOut.def.initial = PyBool(TRUE) /\ CastOut.def.writable = TRUE

\* ------------------------------------------------------ C26
\* C26: for every integer datatype an empty `initial` casts to 0, a base-10
\* literal to its value and anything else raises ValueError; for float and
\* double an empty `initial` casts to 0.0 and a literal casts to its value, a
\* comma read as the decimal point; the datatype of the result is the variant
\* type the row names.
NumericCasting ==
    (CastDone /\ CastRow.datatype # Absent /\ WritableParses) =>
        LET raw == strip(get_initial(CastRow))
        IN /\ \A n \in IntegerNames :
                Normal(CastRow.datatype) = n.key =>
                    /\ raw = <<>> => CastOut.ok /\ CastOut.def.initial = PyInt(0)
                    /\ \A l \in IntLiterals :
                          raw = l.text => CastOut.ok /\ CastOut.def.initial = PyInt(l.value)
                    /\ (raw # <<>> /\ \A l \in IntLiterals : raw # l.text) =>
                          ~CastOut.ok /\ CastOut.exc = "ValueError"
                    /\ CastOut.ok => CastOut.def.datatype = n.vtype
           /\ \A n \in FloatNames :
                Normal(CastRow.datatype) = n.key =>
                    /\ raw = <<>> => CastOut.ok /\ CastOut.def.initial = PyFloat(0, 0)
                    /\ \A l \in FloatLiterals :
                          raw = l.text => CastOut.ok /\ CastOut.def.initial = PyFloat(l.m, l.e)
                    /\ CastOut.ok => CastOut.def.datatype = n.vtype
                    /\ ~CastOut.ok => CastOut.exc = "ValueError"

\* a double point whose initial value is written with a comma
C26_Witness ==
    /\ CastDone
    /\ CastRow.datatype = <<"d", "o", "u", "b", "l", "e">>
    /\ CastRow.initial = <<"2", "0", ",", "5">>
    /\ CastOut.ok
    /\ CastOut.def.datatype = "Double"
    /\ CastOut.def.initial = PyFloat(205, -1)

\* ------------------------------------------------------ C27
\* C27: the initial value of every definition validate_types returns fits its
\* datatype: 0..255 for Byte, -128..127 for SByte, the 16-bit ranges for Int16
\* and UInt16, not negative for UInt32 and UInt64.
InitialFitsType ==
    (CastDone /\ CastOut.ok /\ CastOut.def.datatype \in IntTypes) =>
        LET v == CastOut.def.initial.i
            dt == CastOut.def.datatype
        IN /\ dt = "Byte" => 0 <= v /\ v <= 255
           /\ dt = "SByte" => -128 <= v /\ v <= 127
           /\ dt = "Int16" => -32768 <= v /\ v <= 32767
           /\ dt = "UInt16" => 0 <= v /\ v <= 65535
           /\ dt \in {"UInt32", "UInt64"} => 0 <= v

\* ------------------------------------------------------ C28
\* C28: when `writable` is missing from the dict or is not a boolean word,
\* validate_types raises ValueError and no other kind of exception.
WritableFailureIsValueError ==
    (CastDone /\ CastRow.datatype # Absent /\ ~WritableParses) =>
        ~CastOut.ok /\ CastOut.exc = "ValueError"

\* ------------------------------------------------------ C29
\* C29: every OpcServerError that create, start or resolve raise because an
\* underlying operation failed has that exception in its attribute `original`.
LifecycleErrorCarriesOriginal ==
    (/\ last.op \in {"create", "start", "resolve"}
     /\ last.exc = "OpcServerError"
     /\ last.cause # "none") => last.original = last.cause

\* ------------------------------------------------------ C30
\* C30: a violation the invariant check detects, an endpoint URL without the
\* opc.tcp:// prefix or an empty namespace included, reaches the caller of
\* create, start, stop or resolve as an OpcServerError, never as the bare
\* AssertionError of the check.
InvariantViolationIsLifecycleError ==
    last.op \in {"create", "start", "stop", "resolve"} => last.exc # "AssertionError"

\* ------------------------------------------------------ C31
\* C31: in every step a handle that is present becomes absent only by a
\* stop(clean=True) call, and a started manager that keeps its handle stops
\* being started only by a stop call.
LifecycleTransitions ==
    [][/\ (server # None /\ server' = None) => (last'.op = "stop" /\ last'.clean)
       /\ (started = Some(TRUE) /\ started' # Some(TRUE) /\ server' # None)
             => last'.op = "stop"]_vars

\* ------------------------------------------------------ C32
\* a manager with a valid configuration that has loaded no definition and on
\* which no resolve has built a subtree
NeverResolved ==
    /\ ConfigOk /\ nodes = None
    /\ resolved_nodes = None /\ lib.aspace.objects /\ ~lib.aspace.root

\* C32: on a manager that has not loaded or resolved yet, loading the three-row file
\* whose second row has a malformed boolean returns total_rows 3, loaded 2,
\* skipped 0, duplicates 0, errors 1; the resolve that follows returns
\* total_rows 2, resolved 2, duplicates 0, errors 0; the export that follows
\* writes exactly two entries, the browse name and node id of each resolved
\* variable.
EndToEndScenario ==
    NeverResolved =>
        LET s1 == load_nodes_from_csv(Self, FileThree)
            s2 == resolve_nodes(After(s1), AllOk)
            s3 == export_nodes_to_json(After(s2), AllOk)
        IN /\ ~Raised(s1) /\ s1.ret = "stats"
           /\ s1.stats = [NoStats EXCEPT !.total_rows = 3, !.loaded = 2, !.errors = 1]
           /\ ~Raised(s2) /\ s2.ret = "stats"
           /\ s2.stats = [NoStats EXCEPT !.total_rows = 2, !.resolved = 2]
           /\ ~Raised(s3) /\ s3.ret = "written"
           /\ Cardinality(Val(s3.written)) = 2
           /\ {e.name : e \in Val(s3.written)} = {<<"a", "1">>, <<"a", "3">>}
           /\ \A e \in Val(s3.written) :
                \E i \in 1..Len(Val(s3.resolved_nodes)) :
                    /\ Val(s3.resolved_nodes)[i].nodeid = e.nodeid
                    /\ Val(s3.resolved_nodes)[i].ns = e.ns

\* the scenario has run: the two definitions of the file are loaded and
\* resolved, the server is started and the export has returned
C32_Witness ==
    /\ last.op = "export" /\ last.ret = "written"
    /\ nodes = load_nodes_from_csv(Self, FileThree).nodes
    /\ Len(Val(nodes)) = 2
    /\ Len(Val(resolved_nodes)) = 2
    /\ Cardinality(lib.aspace.vars) = 2
    /\ started = Some(TRUE)

ResolveLeavesStarted ==
    \A env \in ResolveEnvs(FALSE) :
        LET s == resolve_nodes(Self, env)
        IN s.ret = "stats" =>
            /\ ~Raised(s)
            /\ is_started(s) /\ s.server # None
            /\ s.n_start >= 1
            /\ s.n_stop = (IF started = Some(TRUE) THEN 1 ELSE 0)

\* a started manager on which resolve returns statistics
C35_Witness ==
    /\ started = Some(TRUE)
    /\ \E env \in ResolveEnvs(FALSE) : resolve_nodes(Self, env).ret = "stats"

\* ------------------------------------------------------ C36
\* C36: every data row gets the first outcome that applies, in this order: a
\* required field empty after trimming, skipped; alias already among the
\* committed or the earlier loaded rows, duplicate; validate_types fails,
\* error; otherwise loaded. The counters count the rows of each outcome and
\* the new keys are the aliases of the loaded rows: a row with an empty
\* initial is not cast to a default, a duplicate that would not cast is a
\* duplicate only, and a skipped or rejected row does not reserve its alias.
RowClassificationOrder ==
    \A file \in RowFiles \cup OrderFiles :
        LET rows == file.rows
            pre == Committed
            s == load_nodes_from_csv(Self, file)
            Outcome(k, seen) ==
                IF \E f \in AllColumns : strip(rows[k][f]) = <<>> THEN "skipped"
                ELSE IF RowAlias(rows[k]) \in seen THEN "duplicates"
                ELSE IF ~RowValid(rows[k]) THEN "errors"
                ELSE "loaded"
            RECURSIVE Seen(_)
            Seen(k) ==
                IF k = 0 THEN Keys(pre)
                ELSE IF Outcome(k, Seen(k - 1)) = "loaded"
                     THEN Seen(k - 1) \cup {RowAlias(rows[k])}
                     ELSE Seen(k - 1)
            Rows(o) == {k \in 1..Len(rows) : Outcome(k, Seen(k - 1)) = o}
        IN /\ ~Raised(s)
           /\ s.stats.skipped = Cardinality(Rows("skipped"))
           /\ s.stats.duplicates = Cardinality(Rows("duplicates"))
           /\ s.stats.errors = Cardinality(Rows("errors"))
           /\ s.stats.loaded = Cardinality(Rows("loaded"))
           /\ Keys(Val(s.nodes)) = Seen(Len(rows))
           /\ \A k \in Rows("loaded") :
                \E i \in 1..Len(Val(s.nodes)) :
                    /\ Val(s.nodes)[i].key = RowAlias(rows[k])
                    /\ Val(s.nodes)[i].nodeid = strip(rows[k].nodeid)

\* a load in which a3 with an empty initial was skipped and the valid a3 row
\* was loaded
C36_Witness ==
    /\ last.op = "load" /\ last.ret = "stats"
    /\ last.stats.total_rows = 2
    /\ last.stats.skipped = 1 /\ last.stats.loaded = 1
    /\ nodes # None /\ Len(Val(nodes)) = 1
    /\ Val(nodes)[1].key = <<"a", "3">>
    /\ Val(nodes)[1].datatype = "Double"

\* ------------------------------------------------------ C37
\* the variables of the managed subtree and the tracked handles, as node ids
SubtreeVariables == {[nodeid |-> v.nodeid, ns |-> v.ns] : v \in lib.aspace.vars}
TrackedNodes ==
    IF resolved_nodes = None THEN {}
    ELSE {Val(resolved_nodes)[i] : i \in 1..Len(Val(resolved_nodes))}

\* C37: after a resolve that returns statistics the variables under the
\* managed root folder are exactly the nodes of the resolved node set: a point
\* counted as duplicate or error leaves no variable of its own.
NoUntrackedNodes ==
    (last.op = "resolve" /\ last.ret = "stats") => SubtreeVariables = TrackedNodes

\* ------------------------------------------------------ C38
\* the outcomes of a read_node and of a write_node of `alias`
Accesses(alias, env) ==
    {OpcClient_read_node(CSelf, alias, env), OpcClient_write_node(CSelf, alias, env)}

\* C38 as stated: between two clearings of the cache Client.get_node is
\* invoked at most once for each alias.
GetNodeAtMostOncePerAlias == cli_lib.got.again = {}

\* C38 amended: between two clearings of the cache Client.get_node returns a
\* handle at most once for each alias: an access to a cached alias does not
\* invoke it and uses the cached handle, an access to an alias outside the
\* alias map neither invokes it nor caches anything, an access to any other
\* alias on a connected client invokes it once and caches the handle it
\* returns; only an alias for which it raised is passed to it again.
LazyResolutionOncePerAlias ==
    /\ dict_keys(cli_nodes) \subseteq cli_lib.got.once
    /\ dict_keys(cli_nodes) \subseteq dict_keys(cli_aliases)
    /\ cli_lib.got.once \subseteq dict_keys(cli_nodes) \cup cli_lib.got.failed
    /\ cli_lib.got.again \subseteq cli_lib.got.failed
    /\ \A alias \in AliasArgs, env \in AccessEnvs :
        \A c \in Accesses(alias, env) :
            /\ alias \in dict_keys(cli_nodes) =>
                  /\ c.got = cli_lib.got /\ c.nodes = cli_nodes
                  /\ c.used # None => Val(c.used) = dict_get(cli_nodes, alias)
            /\ (alias \notin dict_keys(cli_aliases) \/ cli_client = None) =>
                  c.got = cli_lib.got /\ c.nodes = cli_nodes
            /\ (/\ cli_client # None
                /\ alias \in dict_keys(cli_aliases)
                /\ alias \notin dict_keys(cli_nodes)) =>
                  /\ c.got.once = cli_lib.got.once \cup {alias}
                  /\ c.got.again = cli_lib.got.again \cup ({alias} \cap cli_lib.got.once)
                  /\ alias \in dict_keys(c.nodes) <=>
                        dict_get(cli_aliases, alias) \in
                            {"ns=2;s=n1", "ns=2;s=n3", "ns=2;s=n7", "ns=2;i=3", "ns=2;i=4"}
                  /\ alias \in dict_keys(c.nodes) => c.got.failed = cli_lib.got.failed

\* a3 was resolved at its first access and its handle is cached; get_node was
\* invoked more than once for a4, whose node id does not parse
C38_Witness ==
    /\ "a4" \in cli_lib.got.again
    /\ dict_keys(cli_nodes) = {"a3"}
    /\ cli_lib.got.failed = {"a4"}
    /\ cli_last.op \in {"read", "write"}

\* ------------------------------------------------------ C39
\* C39: a load_aliases_from_json that fails (file missing, not JSON, not
\* readable) raises OpcClientError and leaves the alias map and the node cache
\* empty, whatever they held before.
FailedAliasReloadClearsMap ==
    /\ (cli_last.op = "load_aliases" /\ cli_last.exc # "none") =>
          cli_last.exc = "OpcClientError" /\ cli_aliases = {} /\ cli_nodes = {}
    /\ \A file \in AliasFiles :
          LET c == OpcClient_load_aliases_from_json(CSelf, file)
          IN file.status # "ok" =>
                /\ c.exc = "OpcClientError"
                /\ c.aliases = {} /\ c.nodes = {}
                /\ c.client = cli_client

\* a client with a loaded alias map and a cached node, on which a load fails
C39_Witness ==
    /\ cli_aliases # {} /\ cli_nodes # {}
    /\ \E file \in AliasFiles :
          LET c == OpcClient_load_aliases_from_json(CSelf, file)
          IN Raised(c) /\ c.aliases = {} /\ c.nodes = {}

\* ------------------------------------------------------ C40
\* C40: a start that uses up its retries raises OpcServerError and leaves no
\* definitions loaded, whatever was loaded before the call; the resolve that
\* follows loads the definitions again from the CSV file.
StartFailureDropsDefinitions ==
    (ConfigOk /\ started # Some(TRUE)) =>
        \A stop_ok \in BOOLEAN :
            LET c == [start_ok |-> [k \in Attempts |-> FALSE], rollback_stop_ok |-> stop_ok]
                s == start(Self, DefaultRetries, DefaultBackoff, EnvOf("none", c))
                again == resolve_nodes(After(s), AllOk)
            IN /\ \A r \in 1..MaxRetries, b \in 1..MaxBackoff :
                    LET t == start(Self, r, b, EnvOf("none", c))
                    IN /\ t.exc = "OpcServerError" /\ t.n_start = r
                       /\ t.nodes = None /\ ~alias_is_loaded(t)
               /\ s.nodes = None
               /\ ~Raised(again) /\ again.ret = "stats"
               /\ alias_is_loaded(again)
               /\ again.nodes = load_nodes_from_csv(After(s), AllOk.file).nodes

\* a manager with definitions loaded and a handle, on which a start uses up its
\* retries
C40_Witness ==
    /\ ConfigOk /\ started # Some(TRUE)
    /\ server # None /\ nodes # None /\ Len(Val(nodes)) >= 2
    /\ \E c \in AllCourses :
          LET s == start(Self, DefaultRetries, DefaultBackoff, EnvOf("none", c))
          IN s.exc = "OpcServerError" /\ s.n_start = DefaultRetries /\ s.nodes = None
====
